---- MODULE Spec2Model ----
(***************************************************************************)
(* Routing and context-assembly decision engine of the RAG chatbot API     *)
(* (src/backend): small-talk classifier, domain-relevance heuristic,       *)
(* context assembler, specialist router, response dispatcher and the       *)
(* session state kept in the expiring key-value store.                     *)
(*                                                                         *)
(* Text is a sequence of one-character strings, so that lower(), strip(),  *)
(* split(), substring tests and the regular expressions of config.py are   *)
(* computed as Python computes them.                                       *)
(***************************************************************************)
EXTENDS Integers, Sequences, FiniteSets, TLC

None == "None"

\* ------------------------------------------------------------------ text

\* str.isspace() characters that occur in queries
Whitespace == {" ", "\t", "\n"}

LowerMap ==
    ("A" :> "a") @@ ("B" :> "b") @@ ("C" :> "c") @@ ("D" :> "d") @@ ("E" :> "e") @@
    ("F" :> "f") @@ ("G" :> "g") @@ ("H" :> "h") @@ ("I" :> "i") @@ ("J" :> "j") @@
    ("K" :> "k") @@ ("L" :> "l") @@ ("M" :> "m") @@ ("N" :> "n") @@ ("O" :> "o") @@
    ("P" :> "p") @@ ("Q" :> "q") @@ ("R" :> "r") @@ ("S" :> "s") @@ ("T" :> "t") @@
    ("U" :> "u") @@ ("V" :> "v") @@ ("W" :> "w") @@ ("X" :> "x") @@ ("Y" :> "y") @@
    ("Z" :> "z") @@ ("Á" :> "á") @@ ("É" :> "é") @@ ("Í" :> "í") @@ ("Ó" :> "ó") @@
    ("Ã" :> "ã") @@ ("Ç" :> "ç")

\* the characters the regular expression class \w accepts (str patterns: Unicode)
WordChars ==
    DOMAIN LowerMap \cup {LowerMap[c] : c \in DOMAIN LowerMap}
        \cup {"0", "1", "2", "3", "4", "5", "6", "7", "8", "9", "_"}

\* str.lower()
Lower(s) == [i \in DOMAIN s |-> IF s[i] \in DOMAIN LowerMap THEN LowerMap[s[i]] ELSE s[i]]

\* str.lstrip() / str.rstrip() / str.strip()
RECURSIVE LStrip(_)
LStrip(s) == IF s # <<>> /\ Head(s) \in Whitespace THEN LStrip(Tail(s)) ELSE s

RECURSIVE RStrip(_)
RStrip(s) ==
    IF s # <<>> /\ s[Len(s)] \in Whitespace THEN RStrip(SubSeq(s, 1, Len(s) - 1)) ELSE s

Strip(s) == RStrip(LStrip(s))

\* str.split() with no argument: the maximal runs of non-whitespace
RECURSIVE SplitFrom(_, _, _)
SplitFrom(s, cur, acc) ==
    IF s = <<>> THEN (IF cur = <<>> THEN acc ELSE Append(acc, cur))
    ELSE IF Head(s) \in Whitespace
         THEN SplitFrom(Tail(s), <<>>, IF cur = <<>> THEN acc ELSE Append(acc, cur))
         ELSE SplitFrom(Tail(s), Append(cur, Head(s)), acc)

Split(s) == SplitFrom(s, <<>>, <<>>)

\* the Python test `kw in text` on strings
Contains(text, kw) ==
    \E i \in 1..(Len(text) - Len(kw) + 1) :
        \A k \in 1..Len(kw) : text[i + k - 1] = kw[k]

\* str.join
RECURSIVE Join(_, _)
Join(sep, parts) ==
    IF parts = <<>> THEN <<>>
    ELSE IF Len(parts) = 1 THEN parts[1]
    ELSE parts[1] \o sep \o Join(sep, Tail(parts))

\* --------------------------------------------------- regular expressions
\* One alternative of a pattern of SMALL_TALK_PATTERNS: an optional ^\s*,
\* an optional leading \b, a body of character classes, an optional
\* trailing \b.
Lit(s) == [k \in DOMAIN s |-> {s[k]}]

Alt(anchored, lb, body, rb) == [anchored |-> anchored, lb |-> lb, body |-> body, rb |-> rb]

IsWordAt(t, j) == j >= 1 /\ j <= Len(t) /\ t[j] \in WordChars

\* \b between positions i-1 and i
Boundary(t, i) == IsWordAt(t, i - 1) # IsWordAt(t, i)

MatchAt(alt, t, i) ==
    LET n == Len(alt.body) IN
    /\ i + n - 1 <= Len(t)
    /\ \A k \in 1..n : t[i + k - 1] \in alt.body[k]
    /\ alt.anchored => \A j \in 1..(i - 1) : t[j] \in Whitespace
    /\ alt.lb => Boundary(t, i)
    /\ alt.rb => Boundary(t, i + n)

\* re.search(pat, t) for a pattern given as the set of its alternatives
ReSearch(pat, t) == \E alt \in pat : \E i \in 1..Len(t) : MatchAt(alt, t, i)

\* ---------------------------------------------------------------- config

SMALL_TALK_PATTERNS ==
    << {Alt(TRUE, FALSE, Lit(<<"o", "i">>), TRUE)},
       {Alt(TRUE, FALSE, Lit(<<"o", "l">>) \o <<{"á", "a"}>>, TRUE)},
       {Alt(TRUE, FALSE, Lit(<<"e">>) \o <<{"a", "i"}>>, TRUE)},
       {Alt(FALSE, TRUE, Lit(<<"t", "u", "d", "o", " ", "b", "e", "m">>), TRUE)},
       {Alt(FALSE, TRUE, Lit(<<"t", "u", "d", "o", " ", "c", "e", "r", "t", "o">>), TRUE)},
       {Alt(FALSE, TRUE, Lit(<<"b", "e", "l", "e", "z", "a">>), TRUE),
        Alt(FALSE, TRUE, Lit(<<"b", "l", "z">>), TRUE),
        Alt(FALSE, TRUE, Lit(<<"s", "u", "a", "v", "e">>), TRUE)},
       {Alt(FALSE, TRUE, Lit(<<"o", "p", "a">>), TRUE),
        Alt(FALSE, TRUE, Lit(<<"s", "a", "l", "v", "e">>), TRUE)},
       {Alt(FALSE, TRUE, Lit(<<"b", "o", "m", " ", "d", "i", "a">>), TRUE),
        Alt(FALSE, TRUE, Lit(<<"b", "o", "a", " ", "t", "a", "r", "d", "e">>), TRUE),
        Alt(FALSE, TRUE, Lit(<<"b", "o", "a", " ", "n", "o", "i", "t", "e">>), TRUE)},
       {Alt(FALSE, TRUE, Lit(<<"o", "b", "r", "i", "g", "a", "d">>), FALSE)},
       {Alt(FALSE, TRUE, Lit(<<"v", "a", "l", "e", "u">>), TRUE)},
       {Alt(FALSE, TRUE, Lit(<<"t", "c", "h", "a", "u">>), TRUE),
        Alt(FALSE, TRUE, Lit(<<"a", "t">>) \o <<{"e", "é"}>> \o Lit(<<" ", "l", "o", "g", "o">>), TRUE),
        Alt(FALSE, TRUE, Lit(<<"a", "t">>) \o <<{"e", "é"}>>, TRUE)},
       {Alt(FALSE, TRUE, Lit(<<"c", "o", "m", "o", " ", "v", "a", "i">>), TRUE)} >>

\* similarity scores are in hundredths: 35 is 0.35
FAISS_SCORE_THRESHOLD == 35

DOMINIO_KWS ==
    << <<"p", "a", "r", "c", "e", "l", "a", "m", "e", "n", "t", "o", " ", "d", "o", " ", "s", "o", "l", "o">>,
       <<"l", "o", "t", "e", "a", "m", "e", "n", "t", "o">>,
       <<"d", "e", "s", "m", "e", "m", "b", "r", "a", "m", "e", "n", "t", "o">>,
       <<"r", "e", "g", "u", "l", "a", "r", "i", "z", "a", "ç", "ã", "o", " ", "f", "u", "n", "d", "i", "á", "r", "i", "a">>,
       <<"f", "i", "s", "c", "a", "l", "i", "z", "a", "ç", "ã", "o">>,
       <<"z", "o", "n", "e", "a", "m", "e", "n", "t", "o">>,
       <<"o", "u", "t", "o", "r", "g", "a">>,
       <<"u", "s", "o", " ", "d", "o", " ", "s", "o", "l", "o">>,
       <<"i", "p", "t", "u">>,
       <<"l", "i", "c", "e", "n", "c", "i", "a", "m", "e", "n", "t", "o">>,
       <<"a", "u", "t", "o", " ", "d", "e", " ", "i", "n", "f", "r", "a", "ç", "ã", "o">>,
       <<"i", "m", "p", "r", "o", "b", "i", "d", "a", "d", "e">>,
       <<"p", "l", "a", "n", "o", " ", "d", "i", "r", "e", "t", "o", "r">>,
       <<"l", "e", "i", " ", "c", "o", "m", "p", "l", "e", "m", "e", "n", "t", "a", "r">>,
       <<"c", "ó", "d", "i", "g", "o", " ", "u", "r", "b", "a", "n", "í", "s", "t", "i", "c", "o">>,
       <<"g", "e", "o", "p", "r", "o", "c", "e", "s", "s", "a", "m", "e", "n", "t", "o">>,
       <<"c", "r", "o", "q", "u", "i">>,
       <<"g", "e", "o">>,
       <<"s", "n", "i", "r", "f">>,
       <<"s", "i", "g", "e", "f">>,
       <<"s", "e", "i">>,
       <<"p", "r", "o", "c", "e", "s", "s", "o", " ", "a", "d", "m", "i", "n", "i", "s", "t", "r", "a", "t", "i", "v", "o">> >>

\* ----------------------------------------------------------------- state

VARIABLES
    cache,      \* backend.utils.cache.cache: the process-wide dict of shared objects
    backend,    \* FastAPICache's backend: "redis" once lifespan initialised it, else None
    store,      \* the Redis keys session:<id>:perfil and session:<id>:history
    worker,     \* the runs of inicializar_chatbot (startup thread, reindex tasks): position and locals
    disk,       \* whether the persisted index folder VECTOR_STORE_PATH exists
    req,        \* the requests in flight or last answered: locals of the handler and its position
    nReqs,      \* requests received so far
    hq,         \* a function called on its own: the query handed to it
    hperfil,    \* a function called on its own: the perfil handed to it
    hret        \* a function called on its own: what the call did and returned

vars == <<cache, backend, store, worker, disk, req, nReqs, hq, hperfil, hret>>

\* the state of the server, which a function called on its own leaves alone
serverVars == <<backend, store, worker, disk, req, nReqs>>

\* the state of a function called on its own, which the server leaves alone
harnessVars == <<hq, hperfil, hret>>

\* dict.get(key): the value, or None when the key is absent
CacheGet(c, key) == IF key \in DOMAIN c THEN c[key] ELSE None

\* c[key] = value
CachePut(c, key, value) == [k \in DOMAIN c \cup {key} |-> IF k = key THEN value ELSE c[k]]

EmptyCache == [k \in {} |-> None]

\* --------------------------------------------------------- session store

Sessions == {"s1", "s2"}

\* ex=3600 of both redis_client.set calls
SESSION_TTL == 3600

MAX_HISTORY_LEN == 20

\* json.dumps(chat_history): the text Redis holds, which is no list
JsonDumps(history) == [json |-> history]

\* json.loads(stored_history)
JsonLoads(text) == text.json

\* a key Redis does not hold (never set, or expired)
AbsentPerfil == [present |-> FALSE, value |-> "", ttl |-> 0]

AbsentHistory == [present |-> FALSE, value |-> JsonDumps(<<>>), ttl |-> 0]

EmptyStore == [s \in Sessions |-> [perfil |-> AbsentPerfil, history |-> AbsentHistory]]

\* SET key value EX ttl: the value, and the full time to live, whatever the key held
\* (variant: SET ... KEEPTTL, the time left of an existing key is kept)
RedisSet_KeepTtl(st, sid, field, value, ttl) ==
    [st EXCEPT ![sid][field] =
        [present |-> TRUE, value |-> value, ttl |-> IF @.present THEN @.ttl ELSE ttl]]

\* (variant: a history is appended to the one the key holds)
RedisSet_Append(st, sid, field, value, ttl) ==
    [st EXCEPT ![sid][field] =
        [present |-> TRUE,
         value |-> IF field = "history" /\ @.present
                   THEN JsonDumps(JsonLoads(@.value) \o JsonLoads(value)) ELSE value,
         ttl |-> ttl]]

\* (variant: the key does not name the session, every session gets the value)
RedisSet_AnySession(st, sid, field, value, ttl) ==
    [s \in DOMAIN st |->
        [st[s] EXCEPT ![field] = [present |-> TRUE, value |-> value, ttl |-> ttl]]]

RedisSet(st, sid, field, value, ttl) ==
    [st EXCEPT ![sid][field] = [present |-> TRUE, value |-> value, ttl |-> ttl]]

\* MGET session:<sid>:perfil session:<sid>:history: the two values (None when
\* absent) and the store, which a read leaves as it is
RedisMGet(st, sid) ==
    [perfil  |-> IF st[sid].perfil.present THEN st[sid].perfil.value ELSE None,
     history |-> st[sid].history,
     store   |-> st]

\* d seconds pass: every key loses d seconds and is gone when none are left
Expire(entry, d, absent) ==
    IF entry.present /\ entry.ttl > d THEN [entry EXCEPT !.ttl = @ - d] ELSE absent

RedisElapse(st, d) ==
    [s \in Sessions |-> [perfil  |-> Expire(st[s].perfil, d, AbsentPerfil),
                         history |-> Expire(st[s].history, d, AbsentHistory)]]

\* no request in flight, nothing stored: the server as the functions called on
\* their own see it
ServerAtRest ==
    /\ backend = None
    /\ store = EmptyStore
    /\ worker = [t \in {} |-> None]
    /\ disk = FALSE
    /\ req = [r \in {} |-> None]
    /\ nReqs = 0

\* ------------------------------------------------------------ small talk

is_small_talk_NoLengthTest(query) ==
    LET q == Strip(Lower(query)) IN
    \E p \in DOMAIN SMALL_TALK_PATTERNS : ReSearch(SMALL_TALK_PATTERNS[p], q)

is_small_talk(query) ==
    LET q == Strip(Lower(query)) IN
    IF Len(Split(q)) <= 5
    THEN \E p \in DOMAIN SMALL_TALK_PATTERNS : ReSearch(SMALL_TALK_PATTERNS[p], q)
    ELSE FALSE

\* ------------------------------------------------------------ heuristics

\* min(iterable, default=...)
RECURSIVE SeqMin(_, _)
SeqMin(s, default) ==
    IF s = <<>> THEN default
    ELSE LET m == SeqMin(Tail(s), Head(s)) IN IF Head(s) <= m THEN Head(s) ELSE m

has_domain_kw(q) == \E i \in DOMAIN DOMINIO_KWS : Contains(Lower(q), DOMINIO_KWS[i])

\* What the index does for one call: carregar_vectorstore() returns an index
\* ("loaded" from the persisted folder, "built" from the documents) or raises;
\* similarity_search_with_score returns up to k=3 scores (env.scores) or raises.
Returned(v, c, calls) == [kind |-> "return", value |-> v, cache |-> c, calls |-> calls]

Raised(c, calls) == [kind |-> "raise", value |-> FALSE, cache |-> c, calls |-> calls]

\* (variant: the keyword and the score must both agree)
SimilarityTest_And(q, c, env) ==
    LET cached == CacheGet(c, "vectorstore") IN
    IF cached = None /\ env.load = "raise"
    THEN Raised(c, <<"carregar_vectorstore">>)
    ELSE LET c2    == IF cached = None THEN CachePut(c, "vectorstore", env.load) ELSE c
             calls == (IF cached = None THEN <<"carregar_vectorstore">> ELSE <<>>)
                          \o <<"similarity_search_with_score">>
         IN  IF env.search = "raise"
             THEN Raised(c2, calls)
             ELSE LET best_score == SeqMin(env.scores, 100) IN
                  Returned(has_domain_kw(q) /\ best_score <= FAISS_SCORE_THRESHOLD, c2, calls)

\* (variant: a best score equal to the threshold is a miss)
SimilarityTest_Strict(q, c, env) ==
    LET cached == CacheGet(c, "vectorstore") IN
    IF cached = None /\ env.load = "raise"
    THEN Raised(c, <<"carregar_vectorstore">>)
    ELSE LET c2    == IF cached = None THEN CachePut(c, "vectorstore", env.load) ELSE c
             calls == (IF cached = None THEN <<"carregar_vectorstore">> ELSE <<>>)
                          \o <<"similarity_search_with_score">>
         IN  IF env.search = "raise"
             THEN Raised(c2, calls)
             ELSE LET best_score == SeqMin(env.scores, 100) IN
                  Returned(has_domain_kw(q) \/ best_score < FAISS_SCORE_THRESHOLD, c2, calls)

\* the body of the try block of should_use_database
SimilarityTest(q, c, env) ==
    LET cached == CacheGet(c, "vectorstore") IN
    IF cached = None /\ env.load = "raise"
    THEN Raised(c, <<"carregar_vectorstore">>)
    ELSE LET c2    == IF cached = None THEN CachePut(c, "vectorstore", env.load) ELSE c
             calls == (IF cached = None THEN <<"carregar_vectorstore">> ELSE <<>>)
                          \o <<"similarity_search_with_score">>
         IN  IF env.search = "raise"
             THEN Raised(c2, calls)
             ELSE LET best_score == SeqMin(env.scores, 100) IN
                  Returned(has_domain_kw(q) \/ best_score <= FAISS_SCORE_THRESHOLD, c2, calls)

\* (variant: the small-talk test is skipped)
should_use_database_NoSmallTalk(query, c, env) ==
    LET q == Strip(query)
        t == SimilarityTest(q, c, env)
    IN  IF t.kind = "raise" THEN Returned(has_domain_kw(q), t.cache, t.calls) ELSE t

\* (variant: no except clause, the failure of the index propagates)
should_use_database_NoExcept(query, c, env) ==
    LET q == Strip(query) IN
    IF is_small_talk(q) THEN Returned(FALSE, c, <<>>) ELSE SimilarityTest(q, c, env)

should_use_database(query, c, env) ==
    LET q == Strip(query) IN
    IF is_small_talk(q)
    THEN Returned(FALSE, c, <<>>)
    ELSE LET t == SimilarityTest(q, c, env) IN
         IF t.kind = "raise"
         THEN Returned(has_domain_kw(q), t.cache, t.calls)
         ELSE t

\* ------------------------------------------- heuristics: queries and index

MaxWords == 6

HeurWords == << <<"O", "i">>, <<"i", "p", "t", "u">>, <<"p", "r", "a", "z", "o">> >>

WordQueries ==
    UNION { { Join(<<" ">>, [i \in 1..n |-> HeurWords[f[i]]]) :
                f \in [1..n -> DOMAIN HeurWords] } : n \in 0..MaxWords }

ExtraQueries ==
    { <<"O", "l", "á", ",", " ", "t", "u", "d", "o", " ", "b", "e", "m", "?">>,
      <<" ", " ", "o", "i", " ", " ">>,
      <<"o", "i", "i">>,
      <<"m", "u", "i", "t", "o", " ", "o", "b", "r", "i", "g", "a", "d", "a">>,
      <<"s", "e", "i", "s">>,
      <<"v", "a", "l", "e", "u", " ", "i", "p", "t", "u">>,
      <<"b", "o", "m", " ", " ", "d", "i", "a">>,
      <<"Q", "u", "a", "l", " ", "o", " ", "p", "r", "a", "z", "o", " ", "p", "a", "r", "a", " ", "r", "e", "g", "u", "l", "a", "r", "i", "z", "a", "ç", "ã", "o", " ", "f", "u", "n", "d", "i", "á", "r", "i", "a", " ", "c", "o", "n", "f", "o", "r", "m", "e", " ", "a", " ", "L", "e", "i", " ", "X", "?">> }

HeurQueries == WordQueries \cup ExtraQueries

ScoreLists == { <<>>, <<35>>, <<36>>, <<50, 60, 70>>, <<70, 20, 60>> }

IndexEnvs ==
    [load : {"raise", "loaded"}, search : {"ok"}, scores : ScoreLists]
        \cup [load : {"raise", "loaded"}, search : {"raise"}, scores : {<<>>}]

NoEnv == [load |-> "raise", search |-> "raise", scores |-> <<>>]

NoCall == [fn |-> "none", kind |-> "none", value |-> FALSE, calls |-> <<>>,
           env |-> NoEnv, before |-> EmptyCache]

InitHeur ==
    /\ cache \in {EmptyCache, CachePut(EmptyCache, "vectorstore", "loaded")}
    /\ hq \in HeurQueries
    /\ hperfil = "interesse_geral"
    /\ hret = NoCall
    /\ ServerAtRest

CallIsSmallTalk ==
    /\ hret.fn = "none"
    /\ hret' = [fn |-> "is_small_talk", kind |-> "return", value |-> is_small_talk(hq),
                calls |-> <<>>, env |-> NoEnv, before |-> cache]
    /\ UNCHANGED <<cache, hq, hperfil, serverVars>>

CallShouldUseDatabase ==
    /\ hret.fn = "none"
    /\ \E env \in IndexEnvs :
         LET r == should_use_database(hq, cache, env) IN
         /\ hret' = [fn |-> "should_use_database", kind |-> r.kind, value |-> r.value,
                     calls |-> r.calls, env |-> env, before |-> cache]
         /\ cache' = r.cache
    /\ UNCHANGED <<hq, hperfil, serverVars>>

NextHeur == CallIsSmallTalk \/ CallShouldUseDatabase

SpecHeur == InitHeur /\ [][NextHeur]_vars

\* --------------------------------------------- heuristics: what is claimed

\* the number of whitespace-separated tokens of a text
NumTokens(t) ==
    Cardinality({i \in 1..Len(t) :
                    t[i] \notin Whitespace /\ (i = 1 \/ t[i - 1] \in Whitespace)})

\* the query, lowercased and trimmed, matches at least one small-talk pattern
MatchesSmallTalkPattern(t) ==
    \E p \in DOMAIN SMALL_TALK_PATTERNS : ReSearch(SMALL_TALK_PATTERNS[p], Strip(Lower(t)))

\* small talk as the specification words it: at most 5 tokens and a pattern match
SmallTalkQuery(t) == NumTokens(t) <= 5 /\ MatchesSmallTalkPattern(t)

\* any entry of DOMINIO_KWS is a substring of the lowercased query
ContainsDomainKeyword(t) ==
    \E i \in DOMAIN DOMINIO_KWS : Contains(Lower(t), DOMINIO_KWS[i])

CalledShouldUseDatabase == hret.fn = "should_use_database"

\* the call reached the index and the load or the search raised
IndexRaised ==
    /\ CalledShouldUseDatabase
    /\ hret.calls # <<>>
    /\ \/ CacheGet(hret.before, "vectorstore") = None /\ hret.env.load = "raise"
       \/ hret.env.search = "raise"

\* the call reached the index and the search returned its scores
SearchSucceeded ==
    /\ CalledShouldUseDatabase
    /\ hret.calls # <<>>
    /\ ~IndexRaised

\* C2 as stated: every query containing a domain keyword makes
\* should_use_database return True, whatever the retrieval score.
C2_KeywordAlwaysTrue ==
    (CalledShouldUseDatabase /\ ContainsDomainKeyword(hq))
        => (hret.kind = "return" /\ hret.value = TRUE)

\* C2 amended: every query that contains a domain keyword and is not small
\* talk makes should_use_database return True, whatever the index does
\* (any scores, or a failure).
C2_KeywordTrueUnlessSmallTalk ==
    (CalledShouldUseDatabase /\ ContainsDomainKeyword(hq) /\ ~SmallTalkQuery(hq))
        => (hret.kind = "return" /\ hret.value = TRUE)

C2_Witness ==
    /\ CalledShouldUseDatabase
    /\ ContainsDomainKeyword(hq) /\ ~SmallTalkQuery(hq)
    /\ SearchSucceeded /\ hret.env.scores = <<50, 60, 70>>
    /\ hret.value = TRUE

\* C3: when obtaining the index or the similarity search raises,
\* should_use_database raises nothing and returns exactly has_domain_kw.
C3_IndexFailureDegradesToKeyword ==
    IndexRaised => (hret.kind = "return" /\ hret.value = ContainsDomainKeyword(hq))

C3_Witness ==
    /\ IndexRaised
    /\ hret.env.search = "raise" /\ hret.calls = <<"similarity_search_with_score">>
    /\ ContainsDomainKeyword(hq)
    /\ hret.kind = "return" /\ hret.value = TRUE

\* C4: for a query that is not small talk and whose search succeeds the
\* result is has_domain_kw OR (some returned score <= FAISS_SCORE_THRESHOLD):
\* a score equal to the threshold is a hit, no scores are a miss, and scores
\* 0.5, 0.6, 0.7 without a keyword give False.
C4_KeywordOrBestScore ==
    SearchSucceeded =>
        /\ hret.kind = "return"
        /\ hret.value = (ContainsDomainKeyword(hq)
                           \/ \E i \in DOMAIN hret.env.scores :
                                  hret.env.scores[i] <= FAISS_SCORE_THRESHOLD)
        /\ (hret.env.scores = <<50, 60, 70>> /\ ~ContainsDomainKeyword(hq))
              => hret.value = FALSE
        /\ (hret.env.scores = <<>> /\ ~ContainsDomainKeyword(hq)) => hret.value = FALSE

C4_Witness ==
    /\ SearchSucceeded
    /\ ~ContainsDomainKeyword(hq)
    /\ hret.env.scores = <<35>>
    /\ hret.value = TRUE

\* C5: is_small_talk returns True only for a query of at most 5 tokens that
\* matches a small-talk pattern, returns False for every query of more than
\* 5 tokens, and changes nothing.
C5_SmallTalkShortAndMatching ==
    hret.fn = "is_small_talk" =>
        /\ hret.kind = "return"
        /\ hret.value = TRUE => (NumTokens(hq) <= 5 /\ MatchesSmallTalkPattern(hq))
        /\ NumTokens(hq) > 5 => hret.value = FALSE
        /\ cache = hret.before

C5_Witness ==
    /\ hret.fn = "is_small_talk"
    /\ NumTokens(hq) > 5
    /\ MatchesSmallTalkPattern(hq)
    /\ hret.value = FALSE

\* ------------------------------------------------------ context assembly

Perfis == {"cidadao", "servidor_publico", "interesse_geral"}

Roles == {"1_juridico", "2_operacional", "3_dados_sistemas"}

SEPARATOR == <<"\n", "\n", "-", "-", "-", "\n", "\n">>

SENTINEL == <<"N", "e", "n", "h", "u", "m", " ", "c", "o", "n", "t", "e", "x", "t", "o", " ", "e", "n", "c", "o", "n", "t", "r", "a", "d", "o", ".">>

\* build_retriever: the cached index, loaded first when the cache has none
build_retriever(c, env) ==
    LET cached == CacheGet(c, "vectorstore") IN
    IF cached # None THEN Returned(cached, c, <<>>)
    ELSE IF env.load = "raise" THEN Raised(c, <<"carregar_vectorstore">>)
    ELSE Returned(env.load, CachePut(c, "vectorstore", env.load), <<"carregar_vectorstore">>)

\* r.get("title") or "" ...: one formatted block of a structured web result
WebBlock(r) ==
    <<"T", "í", "t", "u", "l", "o", ":", " ">> \o r.title \o <<"\n", "U", "R", "L", ":", " ">> \o r.url \o <<"\n", "C", "o", "n", "t", "e", "ú", "d", "o", ":", " ">> \o r.content

\* the index of the first item of a result list that is no dict (r.get raises), or 0
FirstBad(items) ==
    IF \E i \in DOMAIN items : ~items[i].isdict
    THEN CHOOSE i \in DOMAIN items :
             ~items[i].isdict /\ \A j \in 1..(i - 1) : items[j].isdict
    ELSE 0

\* the try block of the web search: what it appends to partes and to fontes
\* (variant: every structured result is a segment of its own)
WebSearch_SegmentPerResult(web) ==
    IF web.kind = "str"
    THEN [partes |-> << <<"\n", "[", "W", "E", "B", "]", " ">> \o web.text >>,
          fontes |-> << [tipo |-> "web",
                         metadata |-> [fonte |-> "tavily", conteudo |-> web.text]] >>]
    ELSE IF web.kind = "list"
    THEN LET bad == FirstBad(web.items)
             n   == IF bad = 0 THEN Len(web.items) ELSE bad - 1
             src == [i \in 1..n |->
                        [tipo |-> "web",
                         metadata |-> [title |-> web.items[i].title,
                                       url |-> web.items[i].url]]]
         IN  IF bad = 0
             THEN [partes |-> [i \in 1..n |-> <<"\n", "[", "W", "E", "B", "]", "\n">> \o
                                                WebBlock(web.items[i])],
                   fontes |-> src]
             ELSE [partes |-> <<>>, fontes |-> src]
    ELSE [partes |-> <<>>, fontes |-> <<>>]

WebSearch(web) ==
    IF web.kind = "str"
    THEN [partes |-> << <<"\n", "[", "W", "E", "B", "]", " ">> \o web.text >>,
          fontes |-> << [tipo |-> "web",
                         metadata |-> [fonte |-> "tavily", conteudo |-> web.text]] >>]
    ELSE IF web.kind = "list"
    THEN LET bad == FirstBad(web.items)
             n   == IF bad = 0 THEN Len(web.items) ELSE bad - 1
             src == [i \in 1..n |->
                        [tipo |-> "web",
                         metadata |-> [title |-> web.items[i].title,
                                       url |-> web.items[i].url]]]
         IN  IF bad = 0
             THEN [partes |-> << <<"\n", "[", "W", "E", "B", "]", "\n">> \o
                                   Join(<<"\n", "\n">>, [i \in 1..n |-> WebBlock(web.items[i])]) >>,
                   fontes |-> src]
             ELSE [partes |-> <<>>, fontes |-> src]
    ELSE [partes |-> <<>>, fontes |-> <<>>]

\* (variant: the web search does not depend on the profile)
montar_contexto_rag_AnyPerfil(query, perfil, c, env) ==
    LET b == build_retriever(c, env) IN
    IF b.kind = "raise" THEN Raised(b.cache, b.calls)
    ELSE IF env.retrieve = "raise" THEN Raised(b.cache, b.calls \o <<"retriever.invoke">>)
    ELSE LET docs    == env.docs
             searches == env.tavily_available /\ env.tavily_key
             web     == IF searches THEN WebSearch(env.web)
                        ELSE [partes |-> <<>>, fontes |-> <<>>]
             partes  == [i \in DOMAIN docs |-> docs[i].page_content] \o web.partes
             fontes  == [i \in DOMAIN docs |->
                            [tipo |-> "documento", metadata |-> docs[i].metadata]]
                        \o web.fontes
             contexto == IF partes # <<>> THEN Join(SEPARATOR, partes) ELSE SENTINEL
         IN  Returned([contexto |-> contexto, fontes |-> fontes, partes |-> partes],
                      b.cache,
                      b.calls \o <<"retriever.invoke">>
                          \o (IF searches THEN <<"tavily.run">> ELSE <<>>))

\* montar_contexto_rag: the passages of the retriever, then the web results
montar_contexto_rag(query, perfil, c, env) ==
    LET b == build_retriever(c, env) IN
    IF b.kind = "raise" THEN Raised(b.cache, b.calls)
    ELSE IF env.retrieve = "raise" THEN Raised(b.cache, b.calls \o <<"retriever.invoke">>)
    ELSE LET docs    == env.docs
             searches == perfil = "interesse_geral" /\ env.tavily_available /\ env.tavily_key
             web     == IF searches THEN WebSearch(env.web)
                        ELSE [partes |-> <<>>, fontes |-> <<>>]
             partes  == [i \in DOMAIN docs |-> docs[i].page_content] \o web.partes
             fontes  == [i \in DOMAIN docs |->
                            [tipo |-> "documento", metadata |-> docs[i].metadata]]
                        \o web.fontes
             contexto == IF partes # <<>> THEN Join(SEPARATOR, partes) ELSE SENTINEL
         IN  Returned([contexto |-> contexto, fontes |-> fontes, partes |-> partes],
                      b.cache,
                      b.calls \o <<"retriever.invoke">>
                          \o (IF searches THEN <<"tavily.run">> ELSE <<>>))

\* ----------------------------------------------------------------- router

AnyIn(text, words) == \E i \in DOMAIN words : Contains(text, words[i])

LEGAL_QUERY_KWS ==
    << <<"l", "e", "i">>, <<"j", "u", "r", "i", "s", "p", "r", "u", "d">>, <<"a", "r", "t", ".">>, <<"a", "r", "t", "i", "g", "o">>, <<"s", "a", "n", "ç", "ã", "o">>, <<"s", "a", "n", "ç", "ã", "o">>, <<"c", "r", "i", "m", "e">>,
       <<"i", "m", "p", "r", "o", "b", "i", "d", "a", "d", "e">>, <<"c", "o", "m", "p", "e", "t", "ê", "n", "c", "i", "a">>, <<"c", "o", "m", "p", "e", "t", "e", "n", "c", "i", "a">> >>

DADOS_QUERY_KWS ==
    << <<"s", "i", "s", "t", "e", "m", "a">>, <<"b", "a", "s", "e">>, <<"d", "a", "d", "o", "s">>, <<"c", "n", "p", "j">>, <<"c", "p", "f">>, <<"g", "e", "o", "s", "a", "m", "p", "a">>, <<"s", "i", "g", "e", "f">>, <<"s", "n", "c", "i">>,
       <<"s", "n", "i", "r", "f">>, <<"s", "e", "i">>, <<"s", "e", "i", "!">> >>

\* (variant: an output without a role signal leaves the role undecided)
escolher_agente_NoFallback(analise, query) ==
    LET analise_lower == Lower(analise) IN
    IF AnyIn(analise_lower, << <<"1", "_", "j", "u", "r", "i", "d", "i", "c", "o">>, <<"j", "u", "r", "í", "d", "i", "c", "o">>, <<"j", "u", "r", "i", "d", "i", "c", "o">> >>)
    THEN "1_juridico"
    ELSE IF AnyIn(analise_lower, << <<"3", "_", "d", "a", "d", "o", "s", "_", "s", "i", "s", "t", "e", "m", "a", "s">>, <<"d", "a", "d", "o", "s">>, <<"s", "i", "s", "t", "e", "m", "a", "s">> >>)
    THEN "3_dados_sistemas"
    ELSE IF AnyIn(analise_lower, << <<"2", "_", "o", "p", "e", "r", "a", "c", "i", "o", "n", "a", "l">>, <<"o", "p", "e", "r", "a", "c", "i", "o", "n", "a", "l">>, <<"m", "o", "d", "e", "l", "o">> >>)
    THEN "2_operacional"
    ELSE "indefinido"

\* (variant: the operational signals are looked for first)
escolher_agente_OperationalFirst(analise, query) ==
    LET analise_lower == Lower(analise) IN
    IF AnyIn(analise_lower, << <<"2", "_", "o", "p", "e", "r", "a", "c", "i", "o", "n", "a", "l">>, <<"o", "p", "e", "r", "a", "c", "i", "o", "n", "a", "l">>, <<"m", "o", "d", "e", "l", "o">> >>)
    THEN "2_operacional"
    ELSE IF AnyIn(analise_lower, << <<"1", "_", "j", "u", "r", "i", "d", "i", "c", "o">>, <<"j", "u", "r", "í", "d", "i", "c", "o">>, <<"j", "u", "r", "i", "d", "i", "c", "o">> >>)
    THEN "1_juridico"
    ELSE IF AnyIn(analise_lower, << <<"3", "_", "d", "a", "d", "o", "s", "_", "s", "i", "s", "t", "e", "m", "a", "s">>, <<"d", "a", "d", "o", "s">>, <<"s", "i", "s", "t", "e", "m", "a", "s">> >>)
    THEN "3_dados_sistemas"
    ELSE LET kw == Lower(query) IN
         IF AnyIn(kw, LEGAL_QUERY_KWS) THEN "1_juridico"
         ELSE IF AnyIn(kw, DADOS_QUERY_KWS) THEN "3_dados_sistemas"
         ELSE "2_operacional"

\* (variant: the keyword fallback reads the model output again)
escolher_agente_FallbackOnOutput(analise, query) ==
    LET analise_lower == Lower(analise) IN
    IF AnyIn(analise_lower, << <<"1", "_", "j", "u", "r", "i", "d", "i", "c", "o">>, <<"j", "u", "r", "í", "d", "i", "c", "o">>, <<"j", "u", "r", "i", "d", "i", "c", "o">> >>)
    THEN "1_juridico"
    ELSE IF AnyIn(analise_lower, << <<"3", "_", "d", "a", "d", "o", "s", "_", "s", "i", "s", "t", "e", "m", "a", "s">>, <<"d", "a", "d", "o", "s">>, <<"s", "i", "s", "t", "e", "m", "a", "s">> >>)
    THEN "3_dados_sistemas"
    ELSE IF AnyIn(analise_lower, << <<"2", "_", "o", "p", "e", "r", "a", "c", "i", "o", "n", "a", "l">>, <<"o", "p", "e", "r", "a", "c", "i", "o", "n", "a", "l">>, <<"m", "o", "d", "e", "l", "o">> >>)
    THEN "2_operacional"
    ELSE LET kw == analise_lower IN
         IF AnyIn(kw, LEGAL_QUERY_KWS) THEN "1_juridico"
         ELSE IF AnyIn(kw, DADOS_QUERY_KWS) THEN "3_dados_sistemas"
         ELSE "2_operacional"

\* (variant: only the role tags count, the role names and other words do not)
escolher_agente_TagsOnly(analise, query) ==
    LET analise_lower == Lower(analise) IN
    IF AnyIn(analise_lower, << <<"1", "_", "j", "u", "r", "i", "d", "i", "c", "o">> >>)
    THEN "1_juridico"
    ELSE IF AnyIn(analise_lower, << <<"3", "_", "d", "a", "d", "o", "s", "_", "s", "i", "s", "t", "e", "m", "a", "s">> >>)
    THEN "3_dados_sistemas"
    ELSE IF AnyIn(analise_lower, << <<"2", "_", "o", "p", "e", "r", "a", "c", "i", "o", "n", "a", "l">> >>)
    THEN "2_operacional"
    ELSE LET kw == Lower(query) IN
         IF AnyIn(kw, LEGAL_QUERY_KWS) THEN "1_juridico"
         ELSE IF AnyIn(kw, DADOS_QUERY_KWS) THEN "3_dados_sistemas"
         ELSE "2_operacional"

\* coordenar, lines 161-178: the role read off the model output, else off the query
escolher_agente(analise, query) ==
    LET analise_lower == Lower(analise) IN
    IF AnyIn(analise_lower, << <<"1", "_", "j", "u", "r", "i", "d", "i", "c", "o">>, <<"j", "u", "r", "í", "d", "i", "c", "o">>, <<"j", "u", "r", "i", "d", "i", "c", "o">> >>)
    THEN "1_juridico"
    ELSE IF AnyIn(analise_lower, << <<"3", "_", "d", "a", "d", "o", "s", "_", "s", "i", "s", "t", "e", "m", "a", "s">>, <<"d", "a", "d", "o", "s">>, <<"s", "i", "s", "t", "e", "m", "a", "s">> >>)
    THEN "3_dados_sistemas"
    ELSE IF AnyIn(analise_lower, << <<"2", "_", "o", "p", "e", "r", "a", "c", "i", "o", "n", "a", "l">>, <<"o", "p", "e", "r", "a", "c", "i", "o", "n", "a", "l">>, <<"m", "o", "d", "e", "l", "o">> >>)
    THEN "2_operacional"
    ELSE LET kw == Lower(query) IN
         IF AnyIn(kw, LEGAL_QUERY_KWS) THEN "1_juridico"
         ELSE IF AnyIn(kw, DADOS_QUERY_KWS) THEN "3_dados_sistemas"
         ELSE "2_operacional"

\* _get_llm followed by llm.invoke(text).content: the text, or an exception
\* (no GOOGLE_API_KEY, or the model call fails)
LlmInvoke(llm) ==
    IF ~llm.api_key THEN [kind |-> "raise", text |-> <<>>, calls |-> <<>>]
    ELSE IF llm.kind = "raise" THEN [kind |-> "raise", text |-> <<>>, calls |-> <<"llm.invoke">>]
    ELSE [kind |-> "return", text |-> llm.text, calls |-> <<"llm.invoke">>]

coordenar(query, perfil, c, env) ==
    LET m == montar_contexto_rag(query, perfil, c, env) IN
    IF m.kind = "raise" THEN m
    ELSE LET a == LlmInvoke(env.llm) IN
         IF a.kind = "raise" THEN Raised(m.cache, m.calls \o a.calls)
         ELSE Returned([analise |-> a.text,
                        agente_escolhido |-> escolher_agente(a.text, query),
                        contexto |-> m.value.contexto,
                        fontes |-> m.value.fontes],
                       m.cache, m.calls \o a.calls)

\* ------------------------------- context assembly and router on their own

Doc(text, id) == [page_content |-> text, metadata |-> [source |-> id]]

DocLists ==
    { <<>>,
      << Doc(<<>>, "d0") >>,
      << Doc(<<"p", "1">>, "d1") >>,
      << Doc(<<"p", "1">>, "d1"), Doc(<<"p", "2">>, "d2") >>,
      << Doc(<<>>, "d0"), Doc(<<>>, "d3") >> }

WebItem(title, url, content) ==
    [isdict |-> TRUE, title |-> title, url |-> url, content |-> content]

\* an element of the result list that is no dict: r.get raises AttributeError
NotADict == [isdict |-> FALSE, title |-> <<>>, url |-> <<>>, content |-> <<>>]

WebOutcome(kind, text, items) == [kind |-> kind, text |-> text, items |-> items]

WebResults ==
    { WebOutcome("raise", <<>>, <<>>),
      WebOutcome("other", <<>>, <<>>),
      WebOutcome("str", <<"w">>, <<>>),
      WebOutcome("str", <<>>, <<>>),
      WebOutcome("list", <<>>, <<>>),
      WebOutcome("list", <<>>, << WebItem(<<"t", "1">>, <<"u", "1">>, <<"c", "1">>) >>),
      WebOutcome("list", <<>>, << WebItem(<<"t", "1">>, <<"u", "1">>, <<"c", "1">>), WebItem(<<>>, <<"u", "2">>, <<>>) >>),
      WebOutcome("list", <<>>, << WebItem(<<"t", "1">>, <<"u", "1">>, <<"c", "1">>), NotADict >>) }

LlmOutcome(api_key, kind, text) == [api_key |-> api_key, kind |-> kind, text |-> text]

NoLlm == LlmOutcome(FALSE, "raise", <<>>)

LlmOutcomes ==
    { NoLlm,
      LlmOutcome(TRUE, "raise", <<>>),
      LlmOutcome(TRUE, "return", <<>>),
      LlmOutcome(TRUE, "return", <<"n", "a", "o", " ", "s", "e", "i">>),
      LlmOutcome(TRUE, "return", <<"1", "_", "j", "u", "r", "i", "d", "i", "c", "o">>),
      LlmOutcome(TRUE, "return", <<"A", "g", "e", "n", "t", "e", ":", " ", "3", "_", "d", "a", "d", "o", "s", "_", "s", "i", "s", "t", "e", "m", "a", "s">>),
      LlmOutcome(TRUE, "return", <<"2", "_", "o", "p", "e", "r", "a", "c", "i", "o", "n", "a", "l">>),
      LlmOutcome(TRUE, "return", <<"2", "_", "o", "p", "e", "r", "a", "c", "i", "o", "n", "a", "l", ",", " ", "m", "o", "d", "e", "l", "o", " ", "d", "e", " ", "d", "a", "d", "o", "s">>),
      LlmOutcome(TRUE, "return", <<"T", "e", "m", "a", " ", "J", "u", "r", "í", "d", "i", "c", "o", " ", "e", " ", "o", "p", "e", "r", "a", "c", "i", "o", "n", "a", "l">>) }

RagEnvs ==
    [load : {"raise", "loaded"}, retrieve : {"ok"}, docs : DocLists,
     tavily_available : BOOLEAN, tavily_key : BOOLEAN, web : WebResults, llm : {NoLlm}]
    \cup
    [load : {"loaded"}, retrieve : {"raise"}, docs : {<<>>},
     tavily_available : {FALSE}, tavily_key : {FALSE},
     web : {WebOutcome("raise", <<>>, <<>>)}, llm : {NoLlm}]

CoordEnvs ==
    { [e EXCEPT !.llm = l] :
        e \in { x \in RagEnvs : /\ x.web.kind \in {"raise", "str"}
                                /\ x.tavily_available = x.tavily_key
                                /\ Len(x.docs) <= 1 },
        l \in LlmOutcomes }

RagQueries == { <<"q", "u", "a", "l", " ", "o", " ", "p", "r", "a", "z", "o">>, <<"c", "o", "n", "f", "o", "r", "m", "e", " ", "a", " ", "L", "e", "i", " ", "X">>, <<"m", "e", "u", " ", "c", "p", "f">>, <<"L", "e", "i", " ", "e", " ", "c", "p", "f">> }

InitRag ==
    /\ cache \in {EmptyCache, CachePut(EmptyCache, "vectorstore", "loaded")}
    /\ hq \in RagQueries
    /\ hperfil \in Perfis
    /\ hret = NoCall
    /\ ServerAtRest

CallMontarContextoRag ==
    /\ hret.fn = "none"
    /\ \E env \in RagEnvs :
         LET r == montar_contexto_rag(hq, hperfil, cache, env) IN
         /\ hret' = [fn |-> "montar_contexto_rag", kind |-> r.kind, value |-> r.value,
                     calls |-> r.calls, env |-> env, before |-> cache]
         /\ cache' = r.cache
    /\ UNCHANGED <<hq, hperfil, serverVars>>

CallCoordenar ==
    /\ hret.fn = "none"
    /\ \E env \in CoordEnvs :
         LET r == coordenar(hq, hperfil, cache, env) IN
         /\ hret' = [fn |-> "coordenar", kind |-> r.kind, value |-> r.value,
                     calls |-> r.calls, env |-> env, before |-> cache]
         /\ cache' = r.cache
    /\ UNCHANGED <<hq, hperfil, serverVars>>

NextRag == CallMontarContextoRag \/ CallCoordenar

SpecRag == InitRag /\ [][NextRag]_vars

\* ------------------------------------ context and router: what is claimed

\* C6: montar_contexto_rag never returns an empty context, whatever the
\* passages and web results are, and with no evidence collected (no source
\* attribution at all) the context is exactly the sentinel.
C6_ContextNeverEmpty ==
    (hret.fn = "montar_contexto_rag" /\ hret.kind = "return") =>
        /\ hret.value.contexto # <<>>
        /\ hret.value.fontes = <<>> => hret.value.contexto = SENTINEL

ROLE_SIGNALS ==
    << <<"1", "_", "j", "u", "r", "i", "d", "i", "c", "o">>, <<"j", "u", "r", "í", "d", "i", "c", "o">>, <<"j", "u", "r", "i", "d", "i", "c", "o">>, <<"3", "_", "d", "a", "d", "o", "s", "_", "s", "i", "s", "t", "e", "m", "a", "s">>, <<"d", "a", "d", "o", "s">>, <<"s", "i", "s", "t", "e", "m", "a", "s">>,
       <<"2", "_", "o", "p", "e", "r", "a", "c", "i", "o", "n", "a", "l">>, <<"o", "p", "e", "r", "a", "c", "i", "o", "n", "a", "l">>, <<"m", "o", "d", "e", "l", "o">> >>

\* the lowercased model output contains no role tag and no synonym
NoRoleSignal(text) == ~AnyIn(Lower(text), ROLE_SIGNALS)

\* the role the query alone stands for
QueryFallbackRole(q) ==
    IF AnyIn(Lower(q), LEGAL_QUERY_KWS) THEN "1_juridico"
    ELSE IF AnyIn(Lower(q), DADOS_QUERY_KWS) THEN "3_dados_sistemas"
    ELSE "2_operacional"

CoordenarReturned == hret.fn = "coordenar" /\ hret.kind = "return"

\* C7: whenever coordenar returns, agente_escolhido is one of the three
\* roles, and a model output without any role signal yields the role of the
\* query-keyword fallback, again one of the three.
C7_CoordenarReturnsARole ==
    CoordenarReturned =>
        /\ hret.value.agente_escolhido \in Roles
        /\ NoRoleSignal(hret.value.analise) =>
              /\ hret.value.agente_escolhido = QueryFallbackRole(hq)
              /\ QueryFallbackRole(hq) \in Roles

C7_Witness ==
    /\ CoordenarReturned
    /\ hret.value.analise = <<"n", "a", "o", " ", "s", "e", "i">>
    /\ NoRoleSignal(hret.value.analise)
    /\ hret.value.agente_escolhido = "1_juridico"

\* the index was there (or loaded) and the retriever returned its passages
ContextAssembled ==
    /\ ~(CacheGet(hret.before, "vectorstore") = None /\ hret.env.load = "raise")
    /\ hret.env.retrieve = "ok"

\* C8: coordenar always ends in one of the three roles, also when the
\* language model is unavailable (its call raises) or returns unstructured
\* text: no failure leaves the router as an exception.
C8_RouterNeverRaises ==
    (hret.fn = "coordenar" /\ ContextAssembled)
        => (hret.kind = "return" /\ hret.value.agente_escolhido \in Roles)

\* ------------------------------------------------------------ the server

Turn(role, content) == [role |-> role, content |-> content]

FONTE_GENERICO == <<"F", "l", "u", "x", "o", " ", "g", "e", "n", "é", "r", "i", "c", "o", " ", "(", "s", "e", "m", " ", "R", "A", "G", ")", ":", " ", "p", "e", "r", "g", "u", "n", "t", "a", " ", "n", "ã", "o", " ", "e", "x", "i", "g", "i", "a", " ", "c", "o", "n", "s", "u", "l", "t", "a", " ", "a", "o", " ", "b", "a", "n", "c", "o", ".">>

FONTE_FALLBACK == <<"F", "a", "l", "h", "a", " ", "n", "o", " ", "f", "l", "u", "x", "o", " ", "R", "A", "G", ";", " ", "r", "e", "s", "p", "o", "s", "t", "a", " ", "g", "e", "n", "é", "r", "i", "c", "a", " ", "f", "o", "r", "n", "e", "c", "i", "d", "a", ".">>

\* ask_question before its first line: no locals set, nothing answered
Idle ==
    [pc |-> "idle", session_id |-> None, query |-> <<>>, perfil_in |-> None,
     perfil |-> None, stored_perfil |-> None, stored_history |-> [present |-> FALSE, value |-> JsonDumps(<<>>)],
     chat_history |-> <<>>, usa_db |-> FALSE, resposta |-> <<>>,
     fonte_resumo |-> <<>>, agente_acionado |-> "", source_documents |-> <<>>,
     gate_index |-> None, retriever_index |-> None,
     arrival |-> 0, status |-> 0, calls |-> <<>>]

\* chat_history[-MAX_HISTORY_LEN:] when the list is longer than MAX_HISTORY_LEN
\* (variant: the oldest turns are kept)
Truncate_KeepOldest(history) ==
    IF Len(history) > MAX_HISTORY_LEN THEN SubSeq(history, 1, MAX_HISTORY_LEN) ELSE history

\* (variant: the slice starts one turn late, MAX_HISTORY_LEN - 1 turns are kept)
Truncate_OffByOne(history) ==
    IF Len(history) > MAX_HISTORY_LEN
    THEN SubSeq(history, Len(history) - MAX_HISTORY_LEN + 2, Len(history))
    ELSE history

Truncate(history) ==
    IF Len(history) > MAX_HISTORY_LEN
    THEN SubSeq(history, Len(history) - MAX_HISTORY_LEN + 1, Len(history))
    ELSE history

\* the two chat_history.append calls: the user turn, then the assistant turn
\* (variant: the answer is appended before the question)
AppendTurns_AnswerFirst(history, query, resposta) ==
    history \o << Turn("assistant", resposta), Turn("user", query) >>

AppendTurns(history, query, resposta) ==
    history \o << Turn("user", query), Turn("assistant", resposta) >>

\* request.perfil or "interesse_geral"
PerfilOrDefault(perfil_in) == IF perfil_in # None THEN perfil_in ELSE "interesse_geral"

\* ------------------------------------------------ index initialisation

ReindexTasks == {"x1"}

Tasks == {"startup"} \cup ReindexTasks

\* the FAISS object a run of carregar_vectorstore returns: one per run, loaded
\* from the persisted folder or built from the documents
IndexHandle ==
    [t \in Tasks |->
        IF t = "startup" THEN [loaded |-> "loaded", built |-> "built"]
        ELSE [loaded |-> "x1.loaded", built |-> "x1.built"]]

TaskIdle == [pc |-> "idle", vectorstore |-> None, calls |-> <<>>]

\* carregar_e_vetorizar_documentos: the documents read, split, embedded, the
\* index built and saved to VECTOR_STORE_PATH; any failure is re-raised
carregar_e_vetorizar_documentos(t, d, env) ==
    IF env.build = "raise"
    THEN [kind |-> "raise", value |-> None, disk |-> d,
          calls |-> <<"carregar_e_vetorizar_documentos">>]
    ELSE [kind |-> "return", value |-> IndexHandle[t].built, disk |-> TRUE,
          calls |-> <<"carregar_e_vetorizar_documentos">>]

\* carregar_vectorstore: the persisted index when the folder exists and loads,
\* else a new index built from the documents
carregar_vectorstore(t, d, env) ==
    IF d /\ env.disk_load = "ok"
    THEN [kind |-> "return", value |-> IndexHandle[t].loaded, disk |-> d,
          calls |-> <<"FAISS.load_local">>]
    ELSE LET b == carregar_e_vetorizar_documentos(t, d, env) IN
         [b EXCEPT !.calls = (IF d THEN <<"FAISS.load_local">> ELSE <<>>) \o @]

\* inicializar_chatbot, line 21, right-hand side: carregar_vectorstore() runs
\* (variant: the index under construction is put in the cache before it is ready)
WorkerLoad_PublishFirst(t, env) ==
    /\ worker[t].pc = "load"
    /\ LET v == carregar_vectorstore(t, disk, env) IN
       /\ disk' = v.disk
       /\ cache' = CachePut(cache, "vectorstore", "partial")
       /\ worker' = [worker EXCEPT ![t] =
             [pc |-> IF v.kind = "raise" THEN "failed" ELSE "assign",
              vectorstore |-> v.value, calls |-> v.calls]]
    /\ UNCHANGED <<backend, store, req, nReqs, harnessVars>>

WorkerLoad(t, env) ==
    /\ worker[t].pc = "load"
    /\ LET v == carregar_vectorstore(t, disk, env) IN
       /\ disk' = v.disk
       /\ worker' = [worker EXCEPT ![t] =
             [pc |-> IF v.kind = "raise" THEN "failed" ELSE "assign",
              vectorstore |-> v.value, calls |-> v.calls]]
    /\ UNCHANGED <<cache, backend, store, req, nReqs, harnessVars>>

\* inicializar_chatbot, line 21, the assignment: cache["vectorstore"] = <the result>
WorkerAssign(t) ==
    /\ worker[t].pc = "assign"
    /\ cache' = CachePut(cache, "vectorstore", worker[t].vectorstore)
    /\ worker' = [worker EXCEPT ![t].pc = "chain"]
    /\ UNCHANGED <<backend, store, disk, req, nReqs, harnessVars>>

\* inicializar_chatbot, lines 24-56: retriever, llm, qa_chain,
\* cache["qa_chain"] = qa_chain; any failure is logged
\* (variant: a run that fails takes the chain of the previous run out of the cache)
WorkerChain_ClearsOnFailure(t, llm) ==
    /\ worker[t].pc = "chain"
    /\ LET b == build_retriever(cache, [load |-> "raise"]) IN
       IF b.kind = "raise" \/ ~llm.api_key
       THEN /\ cache' = [k \in DOMAIN b.cache \ {"qa_chain"} |-> b.cache[k]]
            /\ worker' = [worker EXCEPT ![t].pc = "failed",
                                        ![t].calls = @ \o <<"build_retriever">>]
       ELSE /\ cache' = CachePut(b.cache, "qa_chain", b.value)
            /\ worker' = [worker EXCEPT ![t].pc = "done",
                                        ![t].calls = @ \o <<"build_retriever", "_get_llm">>]
    /\ UNCHANGED <<backend, store, disk, req, nReqs, harnessVars>>

WorkerChain(t, llm) ==
    /\ worker[t].pc = "chain"
    /\ LET b == build_retriever(cache, [load |-> "raise"]) IN
       IF b.kind = "raise" \/ ~llm.api_key
       THEN /\ cache' = b.cache
            /\ worker' = [worker EXCEPT ![t].pc = "failed",
                                        ![t].calls = @ \o <<"build_retriever">>]
       ELSE /\ cache' = CachePut(b.cache, "qa_chain", b.value)
            /\ worker' = [worker EXCEPT ![t].pc = "done",
                                        ![t].calls = @ \o <<"build_retriever", "_get_llm">>]
    /\ UNCHANGED <<backend, store, disk, req, nReqs, harnessVars>>

\* POST /reindex: inicializar_chatbot added as a background task
Reindex(t, bound) ==
    /\ t \in ReindexTasks
    /\ worker[t].pc = "idle"
    /\ nReqs < bound
    /\ nReqs' = nReqs + 1
    /\ worker' = [worker EXCEPT ![t].pc = "load"]
    /\ UNCHANGED <<cache, backend, store, disk, req, harnessVars>>

\* FastAPICache.get_backend().redis and one command on it: AttributeError when
\* no backend was initialised, else the command runs (o = "ok") or raises the
\* client's own error (o = "error": the connection is down, the server is gone)
StoreCall(o) == IF backend = None THEN "AttributeError" ELSE o

StoreOutcomes == {"ok", "error"}

\* StartRequest(session_id, perfil): pydantic accepts the three literals of
\* Perfil and nothing else (variant: an unknown value becomes the default)
StartRequest_Coerce(perfil) ==
    IF perfil \in Perfis THEN [ok |-> TRUE, perfil |-> perfil]
    ELSE [ok |-> TRUE, perfil |-> "interesse_geral"]

StartRequest(perfil) == [ok |-> perfil \in Perfis, perfil |-> perfil]

\* POST /start: the request body validated (422), the handler's own test (400),
\* then the profile stored
StartSession(r, sid, perfil, o, bound) ==
    /\ nReqs < bound
    /\ nReqs' = nReqs + 1
    /\ LET body == StartRequest(perfil)
           base == [Idle EXCEPT !.pc = "done", !.session_id = sid, !.perfil_in = perfil,
                                !.arrival = nReqs + 1]
       IN  IF ~body.ok
           THEN /\ req' = [req EXCEPT ![r] = [base EXCEPT !.status = 422]]
                /\ UNCHANGED store
           ELSE IF body.perfil \notin Perfis
           THEN /\ req' = [req EXCEPT ![r] = [base EXCEPT !.status = 400]]
                /\ UNCHANGED store
           ELSE IF StoreCall(o) = "AttributeError"
           THEN /\ req' = [req EXCEPT ![r] =
                              [base EXCEPT !.status = 200, !.perfil = body.perfil]]
                /\ UNCHANGED store
           ELSE IF StoreCall(o) = "error"
           THEN /\ req' = [req EXCEPT ![r] =
                              [base EXCEPT !.status = 500, !.calls = <<"redis.set">>]]
                /\ UNCHANGED store
           ELSE /\ req' = [req EXCEPT ![r] =
                              [base EXCEPT !.status = 200, !.perfil = body.perfil,
                                           !.calls = <<"redis.set">>]]
                /\ store' = RedisSet(store, sid, "perfil", body.perfil, SESSION_TTL)
    /\ UNCHANGED <<cache, backend, worker, disk, harnessVars>>

\* time passes in the store
Tick(d) ==
    /\ \E s \in Sessions : store[s].perfil.present \/ store[s].history.present
    /\ store' = RedisElapse(store, d)
    /\ UNCHANGED <<cache, backend, worker, disk, req, nReqs, harnessVars>>

\* QueryRequest(session_id, query, perfil): perfil is Optional[Perfil], so
\* pydantic accepts None and the three literals and nothing else
QueryRequest(perfil_in) == [ok |-> perfil_in \in Perfis \cup {None}, perfil |-> perfil_in]

\* ask_question, line 51: the stored profile if there is one, else the request's
\* (variant: the profile of the request comes first)
ResolvePerfil_RequestFirst(stored_perfil, perfil_in) ==
    IF perfil_in # None THEN perfil_in
    ELSE IF stored_perfil # None THEN stored_perfil ELSE "interesse_geral"

ResolvePerfil(stored_perfil, perfil_in) ==
    IF stored_perfil # None THEN stored_perfil ELSE PerfilOrDefault(perfil_in)

\* POST /ask, lines 36-59: the request body validated (422), the 503 test, then
\* profile and history from the store
AskBegin(r, sid, query, perfil_in, o, bound) ==
    /\ req[r].pc \in {"idle", "done"}
    /\ nReqs < bound
    /\ nReqs' = nReqs + 1
    /\ LET base == [Idle EXCEPT !.session_id = sid, !.query = query, !.perfil_in = perfil_in,
                                !.arrival = nReqs + 1]
       IN  IF ~QueryRequest(perfil_in).ok
           THEN /\ req' = [req EXCEPT ![r] = [base EXCEPT !.pc = "done", !.status = 422]]
                /\ UNCHANGED store
           ELSE IF "qa_chain" \notin DOMAIN cache \/ "vectorstore" \notin DOMAIN cache
           THEN /\ req' = [req EXCEPT ![r] = [base EXCEPT !.pc = "done", !.status = 503]]
                /\ UNCHANGED store
           ELSE IF sid # None /\ StoreCall(o) = "error"
           THEN /\ req' = [req EXCEPT ![r] =
                      [base EXCEPT !.pc = "done", !.status = 500, !.calls = <<"redis.mget">>]]
                /\ UNCHANGED store
           ELSE IF sid # None /\ StoreCall(o) = "ok"
           THEN LET got == RedisMGet(store, sid) IN
                /\ req' = [req EXCEPT ![r] =
                      [base EXCEPT
                         !.pc = "decide",
                         !.perfil = ResolvePerfil(got.perfil, perfil_in),
                         !.stored_perfil = got.perfil,
                         !.stored_history = [present |-> got.history.present,
                                             value |-> got.history.value],
                         !.chat_history = IF got.history.present
                                          THEN JsonLoads(got.history.value) ELSE <<>>,
                         !.calls = <<"redis.mget">>]]
                /\ store' = got.store
           ELSE /\ req' = [req EXCEPT ![r] =
                      [base EXCEPT !.pc = "decide", !.perfil = PerfilOrDefault(perfil_in)]]
                /\ UNCHANGED store
    /\ UNCHANGED <<cache, backend, worker, disk, harnessVars>>

\* POST /ask, lines 64-68: usa_db = should_use_database(request.query);
\* gate_index is the local vectorstore of should_use_database, the index it searched
AskDecide(r, env) ==
    /\ req[r].pc = "decide"
    /\ LET d == should_use_database(req[r].query, cache, env) IN
       /\ req' = [req EXCEPT ![r].pc = "respond",
                             ![r].usa_db = IF d.kind = "raise" THEN FALSE ELSE d.value,
                             ![r].gate_index = IF d.calls # <<>>
                                               THEN CacheGet(d.cache, "vectorstore") ELSE None,
                             ![r].calls = @ \o <<"should_use_database">> \o d.calls]
       /\ cache' = d.cache
    /\ UNCHANGED <<backend, store, worker, disk, nReqs, harnessVars>>

\* responder_generico_gemini after its caller failed or chose it: the locals of
\* ask_question it leaves, or the exception that ends the request (status 500)
Generico(slot, env, fonte_resumo, agente_acionado) ==
    LET g == LlmInvoke(env.generic) IN
    IF g.kind = "raise"
    THEN [slot EXCEPT !.pc = "done", !.status = 500,
                      !.calls = @ \o <<"responder_generico_gemini">> \o g.calls]
    ELSE [slot EXCEPT !.pc = "persist", !.resposta = g.text,
                      !.fonte_resumo = fonte_resumo, !.agente_acionado = agente_acionado,
                      !.calls = @ \o <<"responder_generico_gemini">> \o g.calls]

\* responder_por_agente: the template of the role, operational for any other
\* value, then the model call
PromptFor(agente) ==
    IF agente = "1_juridico" THEN "AGENTE_JURIDICO_PROMPT"
    ELSE IF agente = "3_dados_sistemas" THEN "AGENTE_DADOS_PROMPT"
    ELSE "AGENTE_OPERACIONAL_PROMPT"

responder_por_agente(agente, llm) ==
    LET a == LlmInvoke(llm) IN
    [a EXCEPT !.calls = IF llm.api_key THEN <<PromptFor(agente)>> \o @ ELSE @]

\* the except clause of the grounded path (lines 87-91): the generic responder
\* answers, under the labels of a fallback
\* (variant: no except clause, the failure ends the request)
GroundedFailure_Propagates(slot, env) == [slot EXCEPT !.pc = "done", !.status = 500]

GroundedFailure(slot, env) ==
    Generico(slot, env, FONTE_FALLBACK, "fallback_generico_gemini")

\* (variant of the step below: the user turn is stored before the responders run)
AskRespond_UserTurnFirst(r, env) ==
    /\ req[r].pc = "respond"
    /\ IF ~req[r].usa_db
       THEN /\ req' = [req EXCEPT ![r] =
                          Generico(req[r], env, FONTE_GENERICO, "agente_generico_gemini")]
            /\ UNCHANGED cache
       ELSE LET diag == coordenar(req[r].query, req[r].perfil, cache, env)
                s1   == [req[r] EXCEPT !.calls = @ \o <<"coordenar">> \o diag.calls,
                                       !.retriever_index = CacheGet(diag.cache, "vectorstore")]
            IN  /\ cache' = diag.cache
                /\ IF diag.kind = "raise"
                   THEN req' = [req EXCEPT ![r] =
                                   GroundedFailure(s1, env)]
                   ELSE LET ans == responder_por_agente(diag.value.agente_escolhido, env.agent)
                            s2 == [s1 EXCEPT
                                     !.agente_acionado = diag.value.agente_escolhido,
                                     !.source_documents = diag.value.fontes,
                                     !.fonte_resumo = diag.value.analise,
                                     !.calls = @ \o <<"responder_por_agente">> \o ans.calls]
                        IN  IF ans.kind = "raise"
                            THEN req' = [req EXCEPT ![r] =
                                     GroundedFailure(s2, env)]
                            ELSE req' = [req EXCEPT ![r] =
                                     [s2 EXCEPT !.pc = "persist", !.resposta = ans.text]]
    /\ store' = IF req[r].session_id # None /\ backend # None
                 THEN RedisSet(store, req[r].session_id, "history",
                               JsonDumps(req[r].chat_history \o <<Turn("user", req[r].query)>>),
                               SESSION_TTL)
                 ELSE store
    /\ UNCHANGED <<backend, worker, disk, nReqs, harnessVars>>

\* POST /ask, lines 75-91: the generic answer, or coordenar and the specialist,
\* with the generic answer again when anything of the latter raises;
\* retriever_index is the local vectorstore of build_retriever, the index the
\* passages are retrieved from
AskRespond(r, env) ==
    /\ req[r].pc = "respond"
    /\ IF ~req[r].usa_db
       THEN /\ req' = [req EXCEPT ![r] =
                          Generico(req[r], env, FONTE_GENERICO, "agente_generico_gemini")]
            /\ UNCHANGED cache
       ELSE LET diag == coordenar(req[r].query, req[r].perfil, cache, env)
                s1   == [req[r] EXCEPT !.calls = @ \o <<"coordenar">> \o diag.calls,
                                       !.retriever_index = CacheGet(diag.cache, "vectorstore")]
            IN  /\ cache' = diag.cache
                /\ IF diag.kind = "raise"
                   THEN req' = [req EXCEPT ![r] =
                                   GroundedFailure(s1, env)]
                   ELSE LET ans == responder_por_agente(diag.value.agente_escolhido, env.agent)
                            s2 == [s1 EXCEPT
                                     !.agente_acionado = diag.value.agente_escolhido,
                                     !.source_documents = diag.value.fontes,
                                     !.fonte_resumo = diag.value.analise,
                                     !.calls = @ \o <<"responder_por_agente">> \o ans.calls]
                        IN  IF ans.kind = "raise"
                            THEN req' = [req EXCEPT ![r] =
                                     GroundedFailure(s2, env)]
                            ELSE req' = [req EXCEPT ![r] =
                                     [s2 EXCEPT !.pc = "persist", !.resposta = ans.text]]
    /\ UNCHANGED <<backend, store, worker, disk, nReqs, harnessVars>>

\* POST /ask, lines 93-118: the two turns appended, the history cut and stored,
\* the response returned
AskPersist(r, o) ==
    /\ req[r].pc = "persist"
    /\ IF req[r].session_id # None
       THEN LET chat_history ==
                    Truncate(AppendTurns(req[r].chat_history, req[r].query, req[r].resposta))
            IN  IF StoreCall(o) = "error"
                THEN /\ UNCHANGED store
                     /\ req' = [req EXCEPT ![r].pc = "done", ![r].status = 500,
                                           ![r].chat_history = chat_history,
                                           ![r].calls = @ \o <<"redis.set">>]
                ELSE IF StoreCall(o) = "ok"
                THEN /\ store' = RedisSet(store, req[r].session_id, "history",
                                          JsonDumps(chat_history), SESSION_TTL)
                     /\ req' = [req EXCEPT ![r].pc = "done", ![r].status = 200,
                                           ![r].chat_history = chat_history,
                                           ![r].calls = @ \o <<"redis.set">>]
                ELSE /\ UNCHANGED store
                     /\ req' = [req EXCEPT ![r].pc = "done", ![r].status = 200,
                                           ![r].chat_history = chat_history]
       ELSE /\ UNCHANGED store
            /\ req' = [req EXCEPT ![r].pc = "done", ![r].status = 200]
    /\ UNCHANGED <<cache, backend, worker, disk, nReqs, harnessVars>>

\* ------------------------------------------------ the server: its requests

Slots == {"r1"}

StartSlots == {"r0"}

MaxRequests == 2

TickStep == 1800

AskQueries == { <<"o", "i", " ", "i", "p", "t", "u">>, <<"i", "p", "t", "u">>, <<"p", "r", "a", "z", "o">> }

AskSessions == {"s1", None}

AskPerfis == {None, "cidadao", "admin"}

StartPerfis == {"servidor_publico", "admin"}

AskIndexEnvs ==
    { e \in IndexEnvs : e.load = "loaded" /\ e.scores \in {<<35>>, <<36>>} }

AskLlm == { LlmOutcome(TRUE, "raise", <<>>), LlmOutcome(TRUE, "return", <<"o", "k">>) }

AskEnvs ==
    [load : {"loaded"}, retrieve : {"ok", "raise"}, docs : { <<>>, << Doc(<<"p", "1">>, "d1") >> },
     tavily_available : {TRUE}, tavily_key : {TRUE},
     web : { WebOutcome("raise", <<>>, <<>>), WebOutcome("str", <<"w">>, <<>>) },
     llm : { LlmOutcome(TRUE, "raise", <<>>),
             LlmOutcome(TRUE, "return", <<"n", "a", "o", " ", "s", "e", "i">>),
             LlmOutcome(TRUE, "return", <<"1", "_", "j", "u", "r", "i", "d", "i", "c", "o">>) },
     agent : AskLlm, generic : AskLlm]

LoadEnvs == [disk_load : {"ok", "raise"}, build : {"ok", "raise"}]

ChainLlm == {NoLlm, LlmOutcome(TRUE, "return", <<>>)}

\* the process after lifespan's startup code: nothing cached, the initialisation
\* thread started, Redis configured or not
Init ==
    /\ cache = EmptyCache
    /\ backend \in {"redis", None}
    /\ store = EmptyStore
    /\ worker = [t \in Tasks |-> IF t = "startup" THEN [TaskIdle EXCEPT !.pc = "load"]
                                  ELSE TaskIdle]
    /\ disk \in BOOLEAN
    /\ req = [r \in Slots \cup StartSlots |-> Idle]
    /\ nReqs = 0
    /\ hq = <<>>
    /\ hperfil = "interesse_geral"
    /\ hret = NoCall

Next ==
    \/ \E env \in LoadEnvs : WorkerLoad("startup", env)
    \/ WorkerAssign("startup")
    \/ \E llm \in ChainLlm : WorkerChain("startup", llm)
    \/ \E r \in StartSlots, sid \in Sessions, perfil \in StartPerfis, o \in StoreOutcomes :
           StartSession(r, sid, perfil, o, MaxRequests)
    \/ Tick(TickStep)
    \/ \E r \in Slots, sid \in AskSessions, query \in AskQueries, perfil_in \in AskPerfis,
          o \in StoreOutcomes :
           AskBegin(r, sid, query, perfil_in, o, MaxRequests)
    \/ \E r \in Slots, env \in AskIndexEnvs : AskDecide(r, env)
    \/ \E r \in Slots, env \in AskEnvs : AskRespond(r, env)
    \/ \E r \in Slots, o \in StoreOutcomes : AskPersist(r, o)

Spec == Init /\ [][Next]_vars

\* ------------------------------------- the server: one long conversation

MaxAsksLong == 11

LongQueries == { <<"o", "i">>, <<"i", "p", "t", "u">> }

LongIndexEnvs == { [load |-> "loaded", search |-> "ok", scores |-> <<36>>] }

LongEnvs ==
    { e \in AskEnvs : /\ e.retrieve = "ok" /\ e.docs = <<>> /\ e.web.kind = "raise"
                      /\ e.llm.kind = "return"
                      /\ e.generic = LlmOutcome(TRUE, "return", <<"o", "k">>) }

NextLong ==
    \/ \E env \in {e \in LoadEnvs : e.build = "ok"} : WorkerLoad("startup", env)
    \/ WorkerAssign("startup")
    \/ WorkerChain("startup", LlmOutcome(TRUE, "return", <<>>))
    \/ \E r \in Slots, query \in LongQueries : AskBegin(r, "s1", query, None, "ok", MaxAsksLong)
    \/ \E r \in Slots, env \in LongIndexEnvs : AskDecide(r, env)
    \/ \E r \in Slots, env \in LongEnvs : AskRespond(r, env)
    \/ \E r \in Slots : AskPersist(r, "ok")

SpecLong == Init /\ [][NextLong]_vars

\* ---------------------------------------------------- the server: claims

RETRIEVAL_CALLS ==
    {"carregar_vectorstore", "similarity_search_with_score", "coordenar",
     "retriever.invoke", "tavily.run", "responder_por_agente"}

Called(slot, names) == \E i \in DOMAIN slot.calls : slot.calls[i] \in names

\* C1: a request whose query is_small_talk accepts gets usa_db = False from
\* should_use_database, makes no call to the index, the retriever, the web search,
\* the router or a specialist at any point of its path, calls the generic
\* responder once the decision is taken, and when it is answered the answer is
\* the generic responder's, labelled agente_generico_gemini, with no source
\* documents.
C1_SmallTalkSkipsRetrieval ==
    \A r \in Slots :
        LET slot == req[r] IN
        (slot.pc # "idle" /\ is_small_talk(slot.query))
        => /\ ~slot.usa_db
           /\ ~Called(slot, RETRIEVAL_CALLS)
           /\ (slot.pc \in {"persist", "done"} /\ Called(slot, {"should_use_database"}))
                 => Called(slot, {"responder_generico_gemini"})
           /\ slot.status = 200 =>
                 /\ slot.agente_acionado = "agente_generico_gemini"
                 /\ slot.fonte_resumo = FONTE_GENERICO
                 /\ slot.source_documents = <<>>

C1_Witness ==
    \E r \in Slots :
        /\ req[r].pc = "done" /\ req[r].status = 200
        /\ is_small_talk(req[r].query) /\ has_domain_kw(Lower(Strip(req[r].query)))
        /\ "vectorstore" \in DOMAIN cache
        /\ req[r].agente_acionado = "agente_generico_gemini"
        /\ Called(req[r], {"responder_generico_gemini"})

StoredTurns(sid) == JsonLoads(store[sid].history.value)

\* an /ask request of a session writes its history
PersistStep(r) ==
    /\ req[r].pc = "persist" /\ req'[r].pc = "done"
    /\ req[r].session_id # None /\ backend = "redis"

C9_StoredAtMost20 == \A sid \in Sessions : Len(StoredTurns(sid)) <= MAX_HISTORY_LEN

C9_AppendKeepsMostRecent ==
    \A r \in Slots :
        PersistStep(r) =>
            LET old   == JsonLoads(req[r].stored_history.value)
                new   == JsonLoads(store'[req[r].session_id].history.value)
                turns == << Turn("user", req[r].query), Turn("assistant", req[r].resposta) >>
            IN  /\ req'[r].status = 200
                /\ store'[req[r].session_id].history.present
                /\ Len(new) <= MAX_HISTORY_LEN
                /\ Len(old) < MAX_HISTORY_LEN - 1 => new = old \o turns
                /\ Len(old) = MAX_HISTORY_LEN =>
                       new = SubSeq(old, 3, MAX_HISTORY_LEN) \o turns

\* C9: the history stored for a session never has more than 20 turns; a request
\* that read a stored history of 20 turns stores turns 3..20 of it followed by
\* its own user and assistant turns, and the request that cuts the history is
\* answered with status 200.
C9_HistoryKeepsLast20 == []C9_StoredAtMost20 /\ [][C9_AppendKeepsMostRecent]_vars

C9_Witness ==
    \E r \in Slots :
        /\ req[r].pc = "done" /\ req[r].status = 200
        /\ req[r].stored_history.present
        /\ Len(JsonLoads(req[r].stored_history.value)) = MAX_HISTORY_LEN
        /\ Len(StoredTurns(req[r].session_id)) = MAX_HISTORY_LEN
        /\ StoredTurns(req[r].session_id)[1] = JsonLoads(req[r].stored_history.value)[3]
        /\ StoredTurns(req[r].session_id)[MAX_HISTORY_LEN] = Turn("assistant", req[r].resposta)

Ttls(st) == [s \in Sessions |-> [perfil |-> st[s].perfil.ttl, history |-> st[s].history.ttl]]

C10_WriteResetsReadKeeps ==
    /\ \A r \in StartSlots, sid \in Sessions, perfil \in Perfis :
           (StartSession(r, sid, perfil, "ok", MaxRequests) /\ backend = "redis")
           => /\ store'[sid].perfil = [present |-> TRUE, value |-> perfil, ttl |-> SESSION_TTL]
              /\ store'[sid].history = store[sid].history
    /\ \A r \in Slots :
           (PersistStep(r) /\ req'[r].status = 200)
           => /\ store'[req[r].session_id].history.present
              /\ store'[req[r].session_id].history.ttl = SESSION_TTL
              /\ store'[req[r].session_id].perfil = store[req[r].session_id].perfil
    /\ \A r \in Slots :
           (req[r].pc \in {"idle", "done"} /\ req'[r].pc \in {"decide", "done"}
               /\ req'[r] # req[r])
           => Ttls(store') = Ttls(store)

\* C10: a /start request leaves the session's profile key with 3600 seconds to
\* live and a persisting /ask request leaves the session's history key with
\* 3600 seconds to live, whatever time the key had left; the step of /ask that
\* reads the two keys leaves the time to live of every key as it was.
C10_SessionTtl == [][C10_WriteResetsReadKeeps]_vars

C10_Witness ==
    \E r \in Slots, sid \in Sessions :
        /\ req[r].pc = "done" /\ req[r].status = 200 /\ req[r].session_id = sid
        /\ Called(req[r], {"redis.mget"}) /\ Called(req[r], {"redis.set"})
        /\ req[r].perfil = store[sid].perfil.value
        /\ store[sid].history.present /\ store[sid].history.ttl = SESSION_TTL
        /\ store[sid].perfil.present /\ store[sid].perfil.ttl = SESSION_TTL - TickStep

\* the last /ask request of slot r was answered for a session whose profile it
\* found in the store, and the history it wrote is still stored: less than
\* SESSION_TTL has passed since that answer
ConversationAlive(r) ==
    /\ req[r].pc = "done" /\ req[r].status = 200
    /\ req[r].session_id # None /\ backend = "redis"
    /\ req[r].stored_perfil # None
    /\ store[req[r].session_id].history.present

\* C11: while a conversation of a session started by /start continues (the last
\* answered /ask read the stored profile and is less than the TTL old), the
\* profile key of the session is still stored.
C11_ActiveSessionKeepsProfile ==
    \A r \in Slots : ConversationAlive(r) => store[req[r].session_id].perfil.present

\* the request ended with the error a store command raised
StoreRaised(slot) ==
    /\ slot.pc = "done" /\ slot.status = 500
    /\ slot.calls # <<>>
    /\ slot.calls[Len(slot.calls)] \in {"redis.mget", "redis.set"}

\* C12: no /start and no /ask request ends with an error raised by the session
\* store: with the backend missing or a store command failing, the request is
\* answered with status 200.
C12_StoreFailureNeverRaises ==
    \A r \in Slots \cup StartSlots : ~StoreRaised(req[r])

\* C14: an /ask request that ended with status 200, unless the call of the
\* generic responder failed; in particular it never ends with 503 and never
\* with an error of the session store.
C14_OnlyGenericFailureIsFatal ==
    \A r \in Slots :
        (req[r].pc = "done" /\ req[r].status # 200)
        => /\ req[r].status = 500
           /\ Called(req[r], {"responder_generico_gemini"})
           /\ ~StoreRaised(req[r])

\* slot r leaves the grounded path of ask_question (lines 79-91)
GroundedStep(r) == req[r].pc = "respond" /\ req[r].usa_db /\ req'[r].pc # "respond"

C13_FallbackStep ==
    \A r \in Slots :
        GroundedStep(r) =>
            \/ /\ ~Called(req'[r], {"responder_generico_gemini"})
               /\ req'[r].pc = "persist"
               /\ req'[r].agente_acionado \in Roles
            \/ /\ Called(req'[r], {"responder_generico_gemini"})
               /\ req'[r].pc = "done" => req'[r].status = 500
               /\ req'[r].pc = "persist" =>
                     /\ req'[r].agente_acionado = "fallback_generico_gemini"
                     /\ req'[r].fonte_resumo = FONTE_FALLBACK
                     /\ req'[r].agente_acionado # "agente_generico_gemini"
                     /\ req'[r].fonte_resumo # FONTE_GENERICO

\* C13: the grounded path ends in one of two ways only: a specialist answered,
\* or (the router or the specialist having raised) the generic responder was
\* called; the request then fails only if the generic responder raised too,
\* and otherwise carries agente_acionado = fallback_generico_gemini and the
\* fallback summary, neither of which is a label of the intentional generic
\* answer.
C13_GroundedFailureFallsBack == [][C13_FallbackStep]_vars

C13_Witness ==
    \E r \in Slots :
        /\ req[r].pc = "done" /\ req[r].status = 200 /\ req[r].usa_db
        /\ Called(req[r], {"responder_por_agente"})
        /\ Called(req[r], {"responder_generico_gemini"})
        /\ req[r].agente_acionado = "fallback_generico_gemini"
        /\ req[r].fonte_resumo = FONTE_FALLBACK

Answered(slot) == slot.pc = "done" /\ slot.status = 200

\* C18 as stated: an answered request called exactly one of the two responders.
C18_ExactlyOneResponderInvoked ==
    \A r \in Slots :
        Answered(req[r]) =>
            (Called(req[r], {"responder_generico_gemini"})
                 # Called(req[r], {"responder_por_agente"}))

\* C18: an answered request got its answer from exactly one responder: from a
\* specialist, and then the generic responder was not called and the role is
\* one of the three, the operational template serving no other role than
\* 2_operacional; or from the generic responder, and then a specialist was
\* called only if the answer is labelled as a fallback.
C18_ExactlyOneResponderAnswers ==
    \A r \in Slots :
        Answered(req[r]) =>
            \/ /\ ~Called(req[r], {"responder_generico_gemini"})
               /\ Called(req[r], {"responder_por_agente"})
               /\ req[r].agente_acionado \in Roles
               /\ Called(req[r], {PromptFor(req[r].agente_acionado)})
               /\ Called(req[r], {"AGENTE_OPERACIONAL_PROMPT"})
                      => req[r].agente_acionado = "2_operacional"
            \/ /\ Called(req[r], {"responder_generico_gemini"})
               /\ req[r].agente_acionado \in {"agente_generico_gemini", "fallback_generico_gemini"}
               /\ Called(req[r], {"responder_por_agente"})
                      => req[r].agente_acionado = "fallback_generico_gemini"

C18_Witness ==
    \E r \in Slots :
        /\ Answered(req[r])
        /\ Called(req[r], {"responder_por_agente"})
        /\ ~Called(req[r], {"responder_generico_gemini"})
        /\ req[r].agente_acionado = "2_operacional"
        /\ req[r].fonte_resumo = <<"n", "a", "o", " ", "s", "e", "i">>

\* C20: an answered request whose answer is the generic responder's
\* (intentional or fallback) returns an empty source_documents.
C20_UngroundedHasNoSources ==
    \A r \in Slots :
        (Answered(req[r]) /\ Called(req[r], {"responder_generico_gemini"}))
        => req[r].source_documents = <<>>

C19_InvalidStartStep ==
    \A r \in StartSlots, sid \in Sessions, perfil \in StartPerfis \ Perfis, o \in StoreOutcomes :
        StartSession(r, sid, perfil, o, MaxRequests)
        => /\ store' = store
           /\ req'[r].status \in {400, 422}
           /\ req'[r].perfil = None

C19_NoUnknownProfile ==
    /\ \A sid \in Sessions : store[sid].perfil.present => store[sid].perfil.value \in Perfis
    /\ \A r \in StartSlots :
          (req[r].pc = "done" /\ req[r].status = 200) => req[r].perfil = req[r].perfil_in

\* C19: a /start request whose perfil is none of the three values ends with
\* status 422 or 400, leaves the store as it was and reports no profile; the
\* store never holds another profile value, and an accepted /start reports the
\* profile it was sent.
C19_InvalidProfileRejected == []C19_NoUnknownProfile /\ [][C19_InvalidStartStep]_vars

C19_Witness ==
    \E r \in StartSlots, sid \in Sessions :
        /\ req[r].pc = "done" /\ req[r].status = 422
        /\ req[r].session_id = sid /\ req[r].perfil_in \notin Perfis
        /\ store[sid].perfil.present /\ store[sid].perfil.value = "servidor_publico"

\* ------------------------------------------ the server: reindex under load

MaxReindexRequests == 3

NextReindex ==
    \/ \E t \in Tasks, env \in LoadEnvs : WorkerLoad(t, env)
    \/ \E t \in Tasks : WorkerAssign(t)
    \/ \E t \in Tasks, llm \in ChainLlm : WorkerChain(t, llm)
    \/ \E t \in ReindexTasks : Reindex(t, MaxReindexRequests)
    \/ \E r \in Slots, query \in LongQueries :
           AskBegin(r, "s1", query, None, "ok", MaxReindexRequests)
    \/ \E r \in Slots, env \in LongIndexEnvs : AskDecide(r, env)
    \/ \E r \in Slots, env \in LongEnvs : AskRespond(r, env)
    \/ \E r \in Slots : AskPersist(r, "ok")

SpecReindex == Init /\ [][NextReindex]_vars

\* the handles of completely built indexes
CompleteIndexes == UNION { {IndexHandle[t].loaded, IndexHandle[t].built} : t \in Tasks }

HandlesOf(t) == {IndexHandle[t].loaded, IndexHandle[t].built}

C15_CacheHoldsCompleteIndex ==
    /\ "vectorstore" \in DOMAIN cache => cache["vectorstore"] \in CompleteIndexes
    /\ \A r \in Slots :
          req[r].pc \in {"decide", "respond"} => "vectorstore" \in DOMAIN cache

C15_SwapStep ==
    CacheGet(cache', "vectorstore") # CacheGet(cache, "vectorstore")
    => \E t \in Tasks :
          /\ worker[t].pc = "assign" /\ worker'[t].pc = "chain"
          /\ worker[t].vectorstore \in HandlesOf(t)
          /\ cache'["vectorstore"] = worker[t].vectorstore

\* C15: the 'vectorstore' entry of the cache is always a completely built
\* index, a request past the 503 test always finds the entry, and the entry
\* changes only in the step in which a run of inicializar_chatbot assigns the
\* index its carregar_vectorstore call has returned.
C15_IndexSwapIsAtomic == []C15_CacheHoldsCompleteIndex /\ [][C15_SwapStep]_vars

C15_Witness ==
    \E r \in Slots, t \in ReindexTasks :
        /\ worker[t].pc = "assign"
        /\ req[r].pc = "respond" /\ Called(req[r], {"similarity_search_with_score"})
        /\ cache["vectorstore"] \in HandlesOf("startup")

\* C16: when a reindex has failed, neither the 'vectorstore' nor the 'qa_chain'
\* entry of the cache is an object that reindex produced.
C16_FailedReindexChangesNothing ==
    \A t \in ReindexTasks :
        worker[t].pc = "failed"
        => /\ CacheGet(cache, "vectorstore") \notin HandlesOf(t)
           /\ CacheGet(cache, "qa_chain") \notin HandlesOf(t)

\* C17: a reindex that obtained its index obtained it from
\* carregar_e_vetorizar_documentos, which reads the source documents.
C17_ReindexRebuildsFromDocuments ==
    \A t \in ReindexTasks :
        worker[t].pc \in {"assign", "chain", "done"}
        => \E i \in DOMAIN worker[t].calls :
              worker[t].calls[i] = "carregar_e_vetorizar_documentos"

\* ------------------------------ context assembly: the web search, claimed

CalledMontar == hret.fn = "montar_contexto_rag"

\* the call got its passages and went on to the web search
WebSearchIssued ==
    /\ CalledMontar /\ hret.kind = "return"
    /\ hperfil = "interesse_geral" /\ hret.env.tavily_available /\ hret.env.tavily_key

\* an exception was raised inside the try block of the web search: by
\* TavilySearchResults(k=5) or tavily.run, or by r.get on a result that is no dict
WebSearchRaised ==
    /\ hret.env.web.kind \in {"raise", "list"}
    /\ hret.env.web.kind = "list" => FirstBad(hret.env.web.items) # 0

DocPartes(docs) == [i \in DOMAIN docs |-> docs[i].page_content]

DocFontes(docs) == [i \in DOMAIN docs |-> [tipo |-> "documento", metadata |-> docs[i].metadata]]

\* C21: when the web search raises at any point of its try block,
\* montar_contexto_rag returns, and the segments and the attributions it
\* returns are exactly those of the retrieved documents: no web segment and
\* no web attribution.
C21_WebFailureLeavesDocumentsOnly ==
    (CalledMontar /\ ContextAssembled
        /\ hperfil = "interesse_geral" /\ hret.env.tavily_available /\ hret.env.tavily_key
        /\ WebSearchRaised)
    => /\ hret.kind = "return"
       /\ hret.value.partes = DocPartes(hret.env.docs)
       /\ hret.value.fontes = DocFontes(hret.env.docs)

\* ------------------------------------- reindex under load: index versions

\* the request searched the index in should_use_database and retrieved its
\* passages through build_retriever
ReadIndexTwice(slot) ==
    /\ slot.pc \in {"persist", "done"}
    /\ slot.gate_index # None /\ slot.retriever_index # None

\* C22: a request that read the index in the relevance gate and again in the
\* context assembly read the same index object both times, also when a
\* reindex assigned a new index in between.
C22_OneIndexPerRequest ==
    \A r \in Slots : ReadIndexTwice(req[r]) => req[r].gate_index = req[r].retriever_index

\* ------------------------ context assembly: segments and attributions, claimed

MontarReturned == CalledMontar /\ hret.kind = "return"

\* the web search ran and its try block ended without an exception
WebSearchCompleted == WebSearchIssued /\ ~WebSearchRaised

\* C23 as stated: the context is the segments joined by the separator, and
\* there is one segment per attribution.
C23_OneSegmentPerAttribution ==
    MontarReturned =>
        /\ Len(hret.value.partes) = Len(hret.value.fontes)
        /\ hret.value.partes # <<>> => hret.value.contexto = Join(SEPARATOR, hret.value.partes)

\* C23: the context is the segments joined by the separator; the segments are
\* the retrieved passages in order, then at most one web segment; the
\* attributions are one per passage in the same order, each with the metadata
\* of its passage, then the web attributions. Unstructured web text gives one
\* segment and one attribution; a structured result list gives one segment,
\* which holds the formatted block of every result, and one attribution per
\* result in the order of the results, so that segments and attributions are
\* as many only when the list has exactly one result.
C23_AttributionsFollowEvidenceOrder ==
    MontarReturned =>
        LET docs == hret.env.docs
            nd   == Len(docs)
            P    == hret.value.partes
            F    == hret.value.fontes
            web  == hret.env.web
        IN  /\ P # <<>> => hret.value.contexto = Join(SEPARATOR, P)
            /\ Len(P) \in {nd, nd + 1} /\ Len(F) >= nd
            /\ \A i \in 1..nd :
                  /\ P[i] = docs[i].page_content
                  /\ F[i].tipo = "documento" /\ F[i].metadata = docs[i].metadata
            /\ \A i \in (nd + 1)..Len(F) : F[i].tipo = "web"
            /\ ~WebSearchIssued => (Len(P) = nd /\ Len(F) = nd)
            /\ (WebSearchCompleted /\ web.kind = "str") =>
                  /\ Len(P) = nd + 1 /\ Len(F) = nd + 1
                  /\ P[nd + 1] = <<"\n", "[", "W", "E", "B", "]", " ">> \o web.text
                  /\ F[nd + 1].metadata.conteudo = web.text
            /\ (WebSearchCompleted /\ web.kind = "list") =>
                  /\ Len(P) = nd + 1 /\ Len(F) = nd + Len(web.items)
                  /\ SubSeq(P[nd + 1], 1, 7) = <<"\n", "[", "W", "E", "B", "]", "\n">>
                  /\ \A j \in DOMAIN web.items :
                        /\ Contains(P[nd + 1], WebBlock(web.items[j]))
                        /\ F[nd + j].metadata.title = web.items[j].title
                        /\ F[nd + j].metadata.url = web.items[j].url
                  /\ (Len(P) = Len(F)) = (Len(web.items) = 1)

C23_Witness ==
    /\ MontarReturned /\ WebSearchCompleted
    /\ Len(hret.env.docs) = 2
    /\ hret.env.web.kind = "list" /\ Len(hret.env.web.items) = 2
    /\ Len(hret.value.partes) = 3 /\ Len(hret.value.fontes) = 4
    /\ hret.value.fontes[4].metadata.url = <<"u", "2">>

\* ------------------------------------------- router: precedence, claimed

LEGAL_SIGNALS == << <<"1", "_", "j", "u", "r", "i", "d", "i", "c", "o">>, <<"j", "u", "r", "í", "d", "i", "c", "o">>, <<"j", "u", "r", "i", "d", "i", "c", "o">> >>

DADOS_SIGNALS == << <<"3", "_", "d", "a", "d", "o", "s", "_", "s", "i", "s", "t", "e", "m", "a", "s">>, <<"d", "a", "d", "o", "s">>, <<"s", "i", "s", "t", "e", "m", "a", "s">> >>

OPERACIONAL_SIGNALS == << <<"2", "_", "o", "p", "e", "r", "a", "c", "i", "o", "n", "a", "l">>, <<"o", "p", "e", "r", "a", "c", "i", "o", "n", "a", "l">>, <<"m", "o", "d", "e", "l", "o">> >>

HasSignal(text, signals) == AnyIn(Lower(text), signals)

\* C24: the role coordenar returns follows the lowercased model output in the
\* order legal, data-systems, operational: a legal signal gives 1_juridico
\* whatever else the output contains, a data-systems signal without a legal
\* one gives 3_dados_sistemas, operational signals alone give 2_operacional.
C24_SignalPrecedence ==
    CoordenarReturned =>
        LET out == hret.value.analise
            agente == hret.value.agente_escolhido
        IN  /\ HasSignal(out, LEGAL_SIGNALS) => agente = "1_juridico"
            /\ (HasSignal(out, DADOS_SIGNALS) /\ ~HasSignal(out, LEGAL_SIGNALS))
                  => agente = "3_dados_sistemas"
            /\ (HasSignal(out, OPERACIONAL_SIGNALS) /\ ~HasSignal(out, LEGAL_SIGNALS)
                    /\ ~HasSignal(out, DADOS_SIGNALS))
                  => agente = "2_operacional"

C24_Witness ==
    /\ CoordenarReturned
    /\ hret.value.analise = <<"T", "e", "m", "a", " ", "J", "u", "r", "í", "d", "i", "c", "o", " ", "e", " ", "o", "p", "e", "r", "a", "c", "i", "o", "n", "a", "l">>
    /\ HasSignal(hret.value.analise, OPERACIONAL_SIGNALS)
    /\ hq = <<"m", "e", "u", " ", "c", "p", "f">>
    /\ hret.value.agente_escolhido = "1_juridico"

\* ------------------------------------ router: the query fallback, claimed

\* C25: when the model output has no role signal, the role follows from the
\* query alone: a legal term in the lowercased query gives 1_juridico, else a
\* data-systems term gives 3_dados_sistemas, else the role is 2_operacional;
\* a query citing a law gives 1_juridico whatever the unparsable output says.
C25_QueryDecidesWithoutSignal ==
    (CoordenarReturned /\ NoRoleSignal(hret.value.analise)) =>
        LET kw     == Lower(hq)
            agente == hret.value.agente_escolhido
        IN  /\ AnyIn(kw, LEGAL_QUERY_KWS) => agente = "1_juridico"
            /\ (~AnyIn(kw, LEGAL_QUERY_KWS) /\ AnyIn(kw, DADOS_QUERY_KWS))
                  => agente = "3_dados_sistemas"
            /\ (~AnyIn(kw, LEGAL_QUERY_KWS) /\ ~AnyIn(kw, DADOS_QUERY_KWS))
                  => agente = "2_operacional"
            /\ hq = <<"c", "o", "n", "f", "o", "r", "m", "e", " ", "a", " ", "L", "e", "i", " ", "X">> => agente = "1_juridico"

C25_Witness ==
    /\ CoordenarReturned
    /\ hq = <<"c", "o", "n", "f", "o", "r", "m", "e", " ", "a", " ", "L", "e", "i", " ", "X">>
    /\ hret.value.analise = <<"n", "a", "o", " ", "s", "e", "i">>
    /\ AnyIn(Lower(hret.value.analise), DADOS_QUERY_KWS)
    /\ hret.value.agente_escolhido = "1_juridico"

\* ------------------------------ context assembly: who gets a web search

NumCalls(calls, name) == Cardinality({i \in DOMAIN calls : calls[i] = name})

\* C26: a call of montar_contexto_rag runs at most one web search, and runs it
\* only for perfil interesse_geral with the web-search key configured; for
\* cidadao and servidor_publico it runs none, and what it returns are the
\* segments and attributions of the retrieved documents alone.
C26_WebSearchOnlyForGeneralInterest ==
    CalledMontar =>
        /\ NumCalls(hret.calls, "tavily.run") <= 1
        /\ NumCalls(hret.calls, "tavily.run") = 1 =>
              /\ hperfil = "interesse_geral"
              /\ hret.env.tavily_available /\ hret.env.tavily_key
        /\ hperfil \in {"cidadao", "servidor_publico"} =>
              /\ NumCalls(hret.calls, "tavily.run") = 0
              /\ hret.kind = "return" =>
                    /\ hret.value.partes = DocPartes(hret.env.docs)
                    /\ hret.value.fontes = DocFontes(hret.env.docs)
                    /\ \A i \in DOMAIN hret.value.fontes :
                          hret.value.fontes[i].tipo = "documento"

C26_Witness ==
    /\ MontarReturned
    /\ hperfil = "servidor_publico"
    /\ hret.env.tavily_available /\ hret.env.tavily_key
    /\ hret.env.web.kind = "str"
    /\ Len(hret.env.docs) = 2
    /\ Len(hret.value.partes) = 2 /\ Len(hret.value.fontes) = 2
    /\ NumCalls(hret.calls, "tavily.run") = 0

\* ------------------------------------ one long conversation: the two turns

\* an /ask request with a session_id is answered
AnswerSessionStep(r) ==
    /\ req[r].pc = "persist" /\ req'[r].pc = "done" /\ req'[r].status = 200
    /\ req[r].session_id # None

\* the stored history after the step is the one before it, less some of its
\* oldest turns, followed by the question and the answer of the request
TwoTurnsAppended(r) ==
    LET sid == req[r].session_id
        old == JsonLoads(store[sid].history.value)
        new == JsonLoads(store'[sid].history.value)
        n   == Len(new)
    IN  /\ store'[sid].history.present
        /\ n >= 2
        /\ new[n - 1] = Turn("user", req[r].query)
        /\ new[n] = Turn("assistant", req[r].resposta)
        /\ \E k \in 0..Len(old) :
              /\ SubSeq(new, 1, n - 2) = SubSeq(old, k + 1, Len(old))
              /\ Len(old) + 2 <= MAX_HISTORY_LEN => k = 0

C27_AnsweredAppendsStep == \A r \in Slots : AnswerSessionStep(r) => TwoTurnsAppended(r)

C27_StoreAppendStep ==
    /\ \A r \in Slots : (AnswerSessionStep(r) /\ backend = "redis") => TwoTurnsAppended(r)
    /\ \A sid \in Sessions :
          store'[sid].history # store[sid].history
          => \E r \in Slots : AnswerSessionStep(r) /\ req[r].session_id = sid

RaceSlots == {"r1", "r2"}

MaxRaceRequests == 4

\* a history a session was left with by earlier requests
PriorTurns(n) ==
    [i \in 1..n |-> IF i % 2 = 1 THEN Turn("user", <<"o", "i">>) ELSE Turn("assistant", <<"o", "k">>)]

\* Redis as the process finds it: empty, or holding the history of a session
\* of the last hour, MAX_HISTORY_LEN turns long
StoreWithSession ==
    [EmptyStore EXCEPT !["s1"].history =
        [present |-> TRUE, value |-> JsonDumps(PriorTurns(MAX_HISTORY_LEN)), ttl |-> TickStep]]

RaceEnvs ==
    { e \in LongEnvs : e.llm.text = <<"n", "a", "o", " ", "s", "e", "i">> /\ e.agent = LlmOutcome(TRUE, "return", <<"o", "k">>) }

InitRace ==
    /\ cache = EmptyCache
    /\ backend = "redis"
    /\ store \in {EmptyStore, StoreWithSession}
    /\ worker = [t \in Tasks |-> IF t = "startup" THEN [TaskIdle EXCEPT !.pc = "load"]
                                  ELSE TaskIdle]
    /\ disk = TRUE
    /\ req = [r \in RaceSlots |-> Idle]
    /\ nReqs = 0
    /\ hq = <<>>
    /\ hperfil = "interesse_geral"
    /\ hret = NoCall

NextRace ==
    \/ \E env \in {e \in LoadEnvs : e.build = "ok"} : WorkerLoad("startup", env)
    \/ WorkerAssign("startup")
    \/ WorkerChain("startup", LlmOutcome(TRUE, "return", <<>>))
    \/ \E r \in RaceSlots, query \in LongQueries :
           AskBegin(r, "s1", query, None, "ok", MaxRaceRequests)
    \/ \E r \in RaceSlots, env \in LongIndexEnvs : AskDecide(r, env)
    \/ \E r \in RaceSlots, env \in RaceEnvs : AskRespond(r, env)
    \/ \E r \in RaceSlots : AskPersist(r, "ok")

SpecRace == InitRace /\ [][NextRace]_vars

\* the history a request writes: what it read, its two turns, cut to 20
OwnWrite(slot) ==
    Truncate(JsonLoads(slot.stored_history.value)
                \o << Turn("user", slot.query), Turn("assistant", slot.resposta) >>)

WellFormed(history) ==
    /\ Len(history) <= MAX_HISTORY_LEN
    /\ Len(history) % 2 = 0
    /\ \A i \in DOMAIN history :
          history[i].role = (IF i % 2 = 1 THEN "user" ELSE "assistant")

C28_WriteStep ==
    \A r \in RaceSlots :
        (req[r].pc = "persist" /\ req'[r].pc = "done")
        => /\ req'[r].status = 200
           /\ store'["s1"].history =
                 [present |-> TRUE, value |-> JsonDumps(OwnWrite(req[r])), ttl |-> SESSION_TTL]

C28_NeverMalformed ==
    /\ WellFormed(StoredTurns("s1"))
    /\ \A r \in RaceSlots :
          (req[r].pc = "done" /\ Called(req[r], {"redis.mget"})) => req[r].status = 200

\* C28: with requests of one session overlapping, every write of the history
\* stores exactly what the writing request read, followed by its own two turns
\* and cut to 20, so that the stored history is always the value of the last
\* write; no request that read the session fails, and the stored history is
\* always a well-formed sequence of user and assistant turns.
C28_LastWriteWins == []C28_NeverMalformed /\ [][C28_WriteStep]_vars

\* both requests read the same 20 turns, both were answered, and the turns of
\* the first to write are not in the stored history
C28_Witness ==
    /\ Answered(req["r1"]) /\ Answered(req["r2"])
    /\ req["r1"].query = <<"i", "p", "t", "u">> /\ req["r2"].query = <<"o", "i">>
    /\ req["r1"].stored_history = req["r2"].stored_history
    /\ Len(JsonLoads(req["r1"].stored_history.value)) = MAX_HISTORY_LEN
    /\ StoredTurns("s1") = OwnWrite(req["r2"])
    /\ \A i \in DOMAIN StoredTurns("s1") : StoredTurns("s1")[i] # Turn("user", <<"i", "p", "t", "u">>)

\* ------------------------------------ reindex under load: the 503 answer

\* what the first test of ask_question looks for
Initialised(c) == "qa_chain" \in DOMAIN c /\ "vectorstore" \in DOMAIN c

\* slot r receives a request
BeginStep(r) == req[r].pc \in {"idle", "done"} /\ req'[r] # req[r]

C29_GateStep ==
    /\ Initialised(cache) => Initialised(cache')
    /\ \A r \in Slots :
          BeginStep(r) =>
              IF Initialised(cache)
              THEN req'[r].status # 503 /\ req'[r].pc = "decide"
              ELSE /\ req'[r].status = 503 /\ req'[r].pc = "done"
                   /\ req'[r].calls = <<>>
                   /\ store' = store

C29_No503Answered ==
    \A r \in Slots : req[r].pc \in {"decide", "respond", "persist"} => Initialised(cache)

\* C29: once both entries are in the cache they stay there, also through a
\* reindex that runs or fails, and every request received from then on passes
\* the first test; a request received before that is answered 503 with the
\* session store neither read nor written.
C29_ServedOnceInitialised == []C29_No503Answered /\ [][C29_GateStep]_vars

\* a request was answered from the index of a reindex that failed
C29_Witness ==
    \E r \in Slots, t \in ReindexTasks :
        /\ worker[t].pc = "failed"
        /\ Answered(req[r]) /\ req[r].gate_index \in HandlesOf(t)
        /\ Called(req[r], {"redis.mget"})
        /\ Initialised(cache)

\* ------------------------------------------ the server: the profile used

\* a profile is stored for the session of the request being received
StoredProfileExists(sid) ==
    sid # None /\ backend = "redis" /\ store[sid].perfil.present

C30_ResolveStep ==
    \A r \in Slots :
        (BeginStep(r) /\ req'[r].pc = "decide") =>
            LET sid == req'[r].session_id
                inp == req'[r].perfil_in
            IN  /\ req'[r].perfil =
                      (IF StoredProfileExists(sid) THEN store[sid].perfil.value
                       ELSE IF inp # None THEN inp
                       ELSE "interesse_geral")
                /\ req'[r].perfil \in Perfis

C30_ProfileIsOneOfThree ==
    \A r \in Slots : req[r].pc \in {"decide", "respond", "persist"} => req[r].perfil \in Perfis

\* C30: a request that goes on to be served uses the profile stored for its
\* session when it names a session and a profile is stored for it, whatever
\* perfil the request carries; else the perfil of the request; else
\* interesse_geral; and the profile used is always one of the three.
C30_ProfileResolution == []C30_ProfileIsOneOfThree /\ [][C30_ResolveStep]_vars

\* the stored profile was used although the request carried another one
C30_Witness ==
    \E r \in Slots :
        /\ Answered(req[r]) /\ req[r].session_id = "s1"
        /\ req[r].perfil_in = "cidadao"
        /\ req[r].stored_perfil = "servidor_publico"
        /\ req[r].perfil = "servidor_publico"

\* ------------------------------------------- router: the role tags, claimed

ROLE_TAGS ==
    [r \in Roles |->
        IF r = "1_juridico" THEN <<"1", "_", "j", "u", "r", "i", "d", "i", "c", "o">>
        ELSE IF r = "2_operacional" THEN <<"2", "_", "o", "p", "e", "r", "a", "c", "i", "o", "n", "a", "l">>
        ELSE <<"3", "_", "d", "a", "d", "o", "s", "_", "s", "i", "s", "t", "e", "m", "a", "s">>]

\* the role tags the lowercased model output contains
TagsIn(text) == {r \in Roles : Contains(Lower(text), ROLE_TAGS[r])}

\* C35 as stated: an output with exactly one role tag yields the role of the tag.
C35_SingleTagDecides ==
    CoordenarReturned =>
        \A r \in Roles :
            TagsIn(hret.value.analise) = {r} => hret.value.agente_escolhido = r

\* C35: an output with exactly one role tag yields the role of the tag unless
\* the output also has a signal of a group that comes earlier in the order
\* legal, data-systems, operational; it then yields the role of the earliest
\* such group: the tag 1_juridico always decides, 3_dados_sistemas decides
\* unless a legal word occurs, 2_operacional decides unless a legal word or
\* one of the words dados, sistemas occurs.
C35_SingleTagDecidesUnlessEarlierSignal ==
    CoordenarReturned =>
        LET out    == hret.value.analise
            agente == hret.value.agente_escolhido
        IN  /\ TagsIn(out) = {"1_juridico"} => agente = "1_juridico"
            /\ TagsIn(out) = {"3_dados_sistemas"} =>
                  agente = (IF HasSignal(out, LEGAL_SIGNALS) THEN "1_juridico"
                            ELSE "3_dados_sistemas")
            /\ TagsIn(out) = {"2_operacional"} =>
                  agente = (IF HasSignal(out, LEGAL_SIGNALS) THEN "1_juridico"
                            ELSE IF HasSignal(out, DADOS_SIGNALS) THEN "3_dados_sistemas"
                            ELSE "2_operacional")

C35_Witness ==
    /\ CoordenarReturned
    /\ hret.value.analise = <<"2", "_", "o", "p", "e", "r", "a", "c", "i", "o", "n", "a", "l", ",", " ", "m", "o", "d", "e", "l", "o", " ", "d", "e", " ", "d", "a", "d", "o", "s">>
    /\ TagsIn(hret.value.analise) = {"2_operacional"}
    /\ hret.value.agente_escolhido = "3_dados_sistemas"

\* -------------------------------- the profile of a started session, claimed

\* the /start request in slot r0 stored one of the two profiles that exclude
\* the web search for session sid
StartStored(r0, sid) ==
    /\ Answered(req[r0]) /\ req[r0].session_id = sid
    /\ req[r0].perfil \in {"cidadao", "servidor_publico"}
    /\ Called(req[r0], {"redis.set"})

\* the /ask request in slot r carries sid, no perfil of its own, and has run
\* the web search
WebSearchedWithoutPerfil(r, sid) ==
    /\ req[r].session_id = sid /\ req[r].perfil_in = None
    /\ Called(req[r], {"tavily.run"})

\* C31: when the last /start request stored cidadao or servidor_publico for a
\* session, no /ask request that arrived after it with that session_id and no
\* perfil of its own has run the web search.
C31_StartedSessionNeverSearchesWeb ==
    \A r \in Slots, r0 \in StartSlots, sid \in Sessions :
        (StartStored(r0, sid) /\ req[r0].arrival < req[r].arrival)
        => ~WebSearchedWithoutPerfil(r, sid)

\* ------------------------------------- the store after a failed /ask, claimed

\* the request ended with the exception of responder_generico_gemini
UnhandledGenericError(slot) ==
    /\ slot.pc = "done" /\ slot.status = 500
    /\ Called(slot, {"responder_generico_gemini"})
    /\ ~StoreRaised(slot)

C32_FailedRequestStep ==
    \A r \in Slots :
        /\ (req'[r] # req[r] /\ req[r].pc # "persist") => store' = store
        /\ (req[r].pc = "respond" /\ UnhandledGenericError(req'[r])) =>
              /\ ~Called(req'[r], {"redis.set"})
              /\ \A sid \in Sessions :
                    (req[r].session_id = sid /\ store'[sid].history.present) =>
                        JsonLoads(store'[sid].history.value) = req[r].chat_history

\* C32: no step of an /ask request before its final store write changes the
\* session store, and a request that ends with the exception of the generic
\* responder (direct path or fallback path) never makes that write: the store
\* is as the step found it, profile and history of every session with their
\* expiry, and the stored history of the session is still the one the request
\* read, without the user turn of the failed request.
C32_FailedRequestLeavesStore == [][C32_FailedRequestStep]_vars

C32_Witness ==
    \E r \in Slots :
        /\ UnhandledGenericError(req[r])
        /\ Called(req[r], {"coordenar"})
        /\ req[r].session_id # None /\ backend # None
        /\ store[req[r].session_id].history.present
        /\ StoredTurns(req[r].session_id) = req[r].chat_history
        /\ Len(req[r].chat_history) = 2

\* ------------------------------------------ the keys /ask touches, claimed

\* what MGET returns for the two keys of session sid
KeysOf(st, sid) ==
    [perfil  |-> IF st[sid].perfil.present THEN st[sid].perfil.value ELSE None,
     history |-> [present |-> st[sid].history.present, value |-> st[sid].history.value]]

StoreCalls == {"redis.mget", "redis.set"}

C33_FrameStep ==
    \A r \in Slots :
        req'[r] # req[r] =>
            LET sid == req'[r].session_id IN
            /\ sid = None =>
                  /\ store' = store
                  /\ ~Called(req'[r], StoreCalls)
                  /\ req'[r].stored_perfil = None /\ ~req'[r].stored_history.present
            /\ sid # None =>
                  /\ \A s \in Sessions \ {sid} : store'[s] = store[s]
                  /\ store'[sid].perfil = store[sid].perfil
                  /\ req[r].pc # "persist" => store'[sid].history = store[sid].history
                  /\ (BeginStep(r) /\ Called(req'[r], {"redis.mget"}) /\ req'[r].pc = "decide") =>
                        /\ req'[r].stored_perfil = KeysOf(store, sid).perfil
                        /\ req'[r].stored_history = KeysOf(store, sid).history

\* C33: every step of an /ask request with session_id S leaves the keys of
\* every other session and the profile key of S as they were, value and
\* expiry, and only its last step changes the history key of S; what the
\* request read is the content of the two keys of S. Every step of an /ask
\* request without session_id leaves the whole store as it was, and the request
\* issues no store command and holds nothing read from the store.
C33_AskTouchesOwnHistoryOnly == [][C33_FrameStep]_vars

C33_Witness ==
    \E r \in Slots, sid \in Sessions, other \in Sessions :
        /\ other # sid
        /\ Answered(req[r]) /\ req[r].session_id = sid
        /\ Called(req[r], {"redis.mget"}) /\ Called(req[r], {"redis.set"})
        /\ store[sid].history.present /\ store[sid].history.ttl = SESSION_TTL
        /\ ~store[sid].perfil.present
        /\ store[other].perfil.present /\ store[other].perfil.ttl = SESSION_TTL - TickStep
        /\ ~store[other].history.present

\* ------------------------------------ the shape of a stored history, claimed

\* user, assistant, user, assistant, ...: an even number of turns, a user turn first
Alternates(history) ==
    /\ Len(history) % 2 = 0
    /\ \A i \in DOMAIN history :
          history[i].role = (IF i % 2 = 1 THEN "user" ELSE "assistant")

\* slot r stores a history
HistoryWriteStep(r) ==
    /\ req[r].pc = "persist" /\ req'[r].pc = "done"
    /\ Called(req'[r], {"redis.set"})

C34_PersistedStep ==
    \A r \in RaceSlots :
        HistoryWriteStep(r) =>
            LET written == JsonLoads(store'[req[r].session_id].history.value) IN
            /\ store'[req[r].session_id].history.present
            /\ Alternates(written)
            /\ Len(written) >= 2

\* C34: every history an /ask request stores has an even number of turns, at
\* least two, with a user turn at every odd position and an assistant turn at
\* every even one; also when the list was cut to 20 turns, and when another
\* request of the same session is in flight.
C34_PersistedHistoryAlternates == [][C34_PersistedStep]_vars

\* a request that read 20 turns has stored its cut list while the other
\* request of the session, which read the same 20 turns, is about to store
C34_Witness ==
    \E r \in RaceSlots, other \in RaceSlots :
        /\ other # r
        /\ Answered(req[r]) /\ Called(req[r], {"redis.set"})
        /\ Len(JsonLoads(req[r].stored_history.value)) = MAX_HISTORY_LEN
        /\ req[other].pc = "persist"
        /\ req[other].session_id = req[r].session_id
        /\ req[other].stored_history = req[r].stored_history
        /\ StoredTurns(req[r].session_id) = req[r].chat_history
        /\ Len(StoredTurns(req[r].session_id)) = MAX_HISTORY_LEN
        /\ Alternates(StoredTurns(req[r].session_id))

====
